---- MODULE Spec2Model ----
(***************************************************************************)
(* LoraMint python backend: the model/GPU residency manager                *)
(* (services/model_manager.py), the LoRA training loop                     *)
(* (services/training/training_loop.py) and the image generation           *)
(* orchestrator (services/image_generator.py, services/progress_callback.py)*)
(* as state machines.                                                      *)
(*                                                                         *)
(* Specifications:                                                         *)
(*   SpecMM    - ModelManager.load_model / unload_model, step by step      *)
(*   SpecTrain - one LoraTrainingLoop.train run, stage by stage            *)
(*   SpecGpu   - the manager and a training run sharing one GPU            *)
(*   SpecGen   - ImageGenerator.generate / generate_with_progress          *)
(*   SpecDl    - ModelManager.download_model, yield by yield               *)
(*   SpecTrainStream - POST /train-lora/stream: training thread and SSE    *)
(*                     event generator                                     *)
(*   SpecProgress - download_model and generate_with_progress together     *)
(*   SpecConfig - LoraTrainingConfig and the reported trigger word, for    *)
(*                every explored request                                   *)
(*   SpecSettings - epochs, rank and learning rate by image count          *)
(*   SpecTrainApi - a training request through either endpoint or directly *)
(*   SpecDataset - length and indexing of the training dataset             *)
(*   SpecPrior - the class images and the prior loss of a training run     *)
(*   SpecAccess - the manager with its two accessors                       *)
(*   SpecArtifacts - the files a training run writes and their listing     *)
(*   SpecLoop - total steps, global steps and reports of the training loop *)
(*   SpecClassImages - the class-image directory over successive runs      *)
(*   SpecCollate - collate_fn on batches with and without class data       *)
(*   SpecUpload - the temp images of one streamed training and their reader *)
(*   SpecPaths - the artifact paths of successive requests                 *)
(*   SpecWatch - both streaming responses under a fair event loop          *)
(*   SpecDisconnect - both streaming responses, consumers may go away,     *)
(*                under fair worker threads                                *)
(***************************************************************************)
EXTENDS Integers, Sequences, FiniteSets, TLC

VARIABLES
    \* ---- ModelManager (model_manager.py) ----
    current_model_id,   \* self.current_model_id
    current_pipeline,   \* self.current_pipeline: None or the model the pipeline object was built from
    gpu,                \* base-model objects alive in device memory: <<owner, model>>
    mm_pc,              \* position inside load_model ("idle" between calls)
    mm_arg,             \* model_id argument of the running load_model
    mm_new,             \* object returned by from_pretrained, not yet stored
    mm_pre,             \* residency state when the running/last call was entered
    mm_loads,           \* from_pretrained invocations of the running/last call
    mm_evictions,       \* pipelines released by the running/last call
    mm_last,            \* last completed call: [op, arg, ret, exc (an exception was caught)]
    \* ---- LoraTrainingLoop (training/training_loop.py) ----
    tr_pc,              \* position inside LoraTrainingLoop.train
    tr_prior,           \* config.with_prior_preservation
    tr_accum,           \* config.gradient_accumulation_steps
    tr_num_batches,     \* len(train_dataloader)
    tr_stages,          \* stages the run has entered, in order
    tr_loaded,          \* model components of the loop object that are not None
    tr_cleaned,         \* _cleanup has run in this run
    tr_files,           \* artifacts this run has written
    tr_class_dir,       \* number of *.png files in <output_dir>/.class_images
    tr_existing,        \* len(existing) seen by _generate_class_images
    tr_i,               \* loop index of the class-image loop
    tr_step,            \* batches that went through forward/backward
    tr_global_step,     \* global_step
    tr_total_steps,     \* total_steps
    \* ---- ImageGenerator (image_generator.py, progress_callback.py) ----
    gen_mm_set,         \* self.model_manager is not None
    gen_pc,             \* position inside generate / generate_with_progress
    gen_variant,        \* "generate" or "stream" (generate_with_progress)
    gen_loras,          \* the loras argument: adapter files in request order
    gen_outcomes,       \* what happened to each adapter load_loras has handled so far
    gen_loaded_any,     \* loaded_any / loras_loaded
    gen_saved,          \* image.save has written the output file
    gen_mkdir,          \* the call has run user_output_dir.mkdir
    gen_error,          \* why the call raised / which error event it ended with
    pipe_loaded,        \* adapters attached to the shared pipeline object
    pipe_active,        \* <<adapter, strength>> pairs set_adapters made active
    gen_N,              \* num_inference_steps
    w_pc,               \* the executor thread running run_pipeline
    w_step,             \* callback invocations made by the pipeline so far
    loop_ready,         \* callbacks scheduled on the event loop (call_soon_threadsafe), FIFO
    future_state,       \* the asyncio future of run_in_executor: "pending", "ok", "exc"
    gen_queue,          \* callback.queue
    gen_yielded,        \* events generate_with_progress has yielded
    \* ---- ModelManager.download_model (model_manager.py) ----
    dl_pc,              \* position inside the download_model generator
    dl_id,              \* model_id argument of the running/last download_model
    dl_events,          \* DownloadProgress events the call has yielded
    dl_dirs,            \* model ids whose directory exists under models_path
    dl_markers,         \* model ids whose directory holds a marker file
    dl_pre,             \* dl_dirs when the running/last call was entered
    dl_fetch,           \* snapshot_download in this call: "none", "ok", "raised"
    \* ---- POST /train-lora/stream (main.py) ----
    ts_pc,              \* position of the request / its event_generator
    ts_thread,          \* training_thread running run_training
    ts_outcome,         \* how lora_trainer.train ended in the thread: "none", "returned", "raised"
    ts_emitted,         \* progress_callback invocations made by the training
    ts_queue,           \* progress_queue (None is the end-of-work sentinel)
    ts_result,          \* result_holder: [path, error]
    ts_temp,            \* the temporary training images are on disk
    ts_sent,            \* SSE events the response has sent
    \* ---- training configuration (training_config.py, lora_trainer.py, main.py) ----
    cfg_in,             \* the arguments of the request / of the constructor
    cfg_pc,             \* "input", or the operation that has been applied to cfg_in
    cfg,                \* the LoraTrainingConfig after __post_init__
    cfg_word,           \* the trigger word the endpoint reports to the client
    \* ---- training settings by image count (lora_trainer.py, training_config.py) ----
    set_in,             \* image counts and the caller's num_train_epochs, lora_rank, learning_rate
    set_pc,             \* which of the three operations have been applied to set_in
    set_train,          \* the settings LoraTrainer.train hands to LoraTrainingConfig
    set_rec,            \* get_recommended_settings of the two image counts
    set_fic,            \* for_image_count defaults of the two image counts
    \* ---- one training request (main.py /train-lora, lora_trainer.py, file_handler.py) ----
    rq_pc,              \* position of the training request: idle, saved, training, done
    rq_entry,           \* how training was asked for: none, endpoint (POST /train-lora), direct
    rq_n,               \* number of images of the request
    rq_temp,            \* the temp directory of the uploaded images is on disk
    rq_user_dir,        \* the per-user LoRA directory has been created
    rq_worker,          \* the training worker has been started
    rq_response,        \* none, 200, 500 (endpoint); returned, ValueError, raised (direct)
    \* ---- DreamBoothDataset (dreambooth_dataset.py) ----
    ds_k,               \* num_instance_images of the dataset
    ds_e,               \* num_repeats of the dataset
    ds_len,             \* what __len__ returned, -1 before it is called
    ds_prev,            \* the __getitem__ call before the last: [index, instance_idx]
    ds_last,            \* the last __getitem__ call: [index, instance_idx]
    \* ---- prior preservation of one training run (training_loop.py, dreambooth_dataset.py) ----
    pp_pc,              \* position of the run: setup, dataset, train, done
    pp_prior,           \* config.with_prior_preservation
    pp_class_prompt,    \* config.class_prompt
    pp_want,            \* config.num_class_images
    pp_dir,             \* <output_dir>/.class_images: [exists, pngs]
    pp_touched,         \* what the run did to the class-image directory
    pp_class_images,    \* len(dataset.class_images), -1 before the dataset exists
    pp_batch,           \* the last batch: [class_data, instance_loss, class_loss, loss]
    \* ---- the accessors of the ModelManager (model_manager.py lines 371-389) ----
    acc_steps,          \* the last get_inference_steps call: [called, model_id, current, value]
    acc_lora,           \* the last supports_lora call: [called, model_id, current, value]
    \* ---- adapter artifacts of one user (training_loop.py _save_lora_weights, lora_trainer.py get_user_loras) ----
    art_in,             \* the arguments of the training run: name, trigger word, timestamp, rank, prior
    art_pc,             \* idle, training, saved (the run succeeded) or failed
    art_runs,           \* number of training runs so far
    art_cfg,            \* the LoraTrainingConfig of the last run
    art_weights,        \* names of the *.safetensors files in the user's directory
    art_sidecars,       \* the *_metadata.json files: [name, readable, data]
    art_written,        \* the *.safetensors files the last run wrote
    art_listing,        \* what get_user_loras returned since the last run started
    \* ---- the steps of the training loop (training_loop.py lines 338-516) ----
    lp_cfg,             \* instance images, epochs, train_batch_size, gradient_accumulation_steps, max_train_steps
    lp_pc,              \* position in the training loop: setup, loop, done
    lp_total,           \* total_steps
    lp_step,            \* batches that got a forward and backward pass
    lp_global,          \* global_step
    lp_updates,         \* the batch counts after which a global step was performed
    lp_events,          \* global steps reported by _report_progress inside the loop
    \* ---- the class-image directory over several runs (training_loop.py lines 191-262) ----
    ci_dir,             \* names of the png files in <output_dir>/.class_images
    ci_pc,              \* position in _generate_class_images: idle, pipeline, generate, returned, raised
    ci_num,             \* num_images of the current call
    ci_before,          \* the directory when the current call started
    ci_existing,        \* len(existing) of the current call
    ci_i,               \* images saved by the current call
    ci_pipeline,        \* the current call created a pipeline
    ci_overwrote,       \* a save replaced a file that was there
    ci_runs,            \* calls started
    ci_done_max,        \* largest num_images of a call that returned, 0 if none
    ci_repeat,          \* the current call asks for no more than a returned call did
    \* ---- collate_fn (dreambooth_dataset.py lines 111-155) ----
    co_examples,        \* the examples handed to collate_fn
    co_pc,              \* input: not collated yet, collated: co_batch is the result
    co_batch,           \* the batch collate_fn returned
    \* ---- the uploaded temp images as the worker of /train-lora/stream sees them ----
    wi_opened,          \* the uploaded images and the dataset of the worker: no (not opened yet), opened, missing (the open failed)
    \* ---- the paths of the artifacts of successive requests ----
    pa_now,             \* the wall clock, in ticks of 1/TicksPerSecond second
    pa_requests         \* the requests served so far, in their order: kind, user, lora name, path

mmVars == <<current_model_id, current_pipeline, gpu, mm_pc, mm_arg, mm_new,
            mm_pre, mm_loads, mm_evictions, mm_last>>

\* the manager's variables without the device
mmOnly == <<current_model_id, current_pipeline, mm_pc, mm_arg, mm_new, mm_pre,
            mm_loads, mm_evictions, mm_last>>

trVars == <<tr_pc, tr_prior, tr_accum, tr_num_batches, tr_stages, tr_loaded,
            tr_cleaned, tr_files, tr_class_dir, tr_existing, tr_i, tr_step,
            tr_global_step, tr_total_steps>>

genVars == <<gen_mm_set, gen_pc, gen_variant, gen_loras, gen_outcomes,
             gen_loaded_any, gen_saved, gen_mkdir, gen_error, pipe_loaded,
             pipe_active, gen_N, w_pc, w_step, loop_ready, future_state,
             gen_queue, gen_yielded>>

dlVars == <<dl_pc, dl_id, dl_events, dl_dirs, dl_markers, dl_pre, dl_fetch>>

tsVars == <<ts_pc, ts_thread, ts_outcome, ts_emitted, ts_queue, ts_result,
            ts_temp, ts_sent>>

cfgVars == <<cfg_in, cfg_pc, cfg, cfg_word>>

setVars == <<set_in, set_pc, set_train, set_rec, set_fic>>

rqVars == <<rq_pc, rq_entry, rq_n, rq_temp, rq_user_dir, rq_worker,
            rq_response>>

dsVars == <<ds_k, ds_e, ds_len, ds_prev, ds_last>>

ppVars == <<pp_pc, pp_prior, pp_class_prompt, pp_want, pp_dir, pp_touched,
            pp_class_images, pp_batch>>

accVars == <<acc_steps, acc_lora>>

artVars == <<art_in, art_pc, art_runs, art_cfg, art_weights, art_sidecars,
             art_written, art_listing>>

lpVars == <<lp_cfg, lp_pc, lp_total, lp_step, lp_global, lp_updates,
            lp_events>>

ciVars == <<ci_dir, ci_pc, ci_num, ci_before, ci_existing, ci_i, ci_pipeline,
            ci_overwrote, ci_runs, ci_done_max, ci_repeat>>

coVars == <<co_examples, co_pc, co_batch>>

wiVars == <<wi_opened>>

paVars == <<pa_now, pa_requests>>

vars == <<mmVars, trVars, genVars, dlVars, tsVars, cfgVars, setVars, rqVars,
          dsVars, ppVars, accVars, artVars, lpVars, ciVars, coVars, wiVars,
          paVars>>

\* what the actions of one component leave alone
notMM == <<trVars, genVars, dlVars, tsVars, cfgVars, setVars, rqVars, dsVars,
           ppVars, accVars, artVars, lpVars, ciVars, coVars, wiVars, paVars>>
notTr == <<mmOnly, genVars, dlVars, tsVars, cfgVars, setVars, rqVars, dsVars,
           ppVars, accVars, artVars, lpVars, ciVars, coVars, wiVars, paVars>>
notGen == <<mmVars, trVars, dlVars, tsVars, cfgVars, setVars, rqVars, dsVars,
            ppVars, accVars, artVars, lpVars, ciVars, coVars, wiVars, paVars>>
notDl == <<mmVars, trVars, genVars, tsVars, cfgVars, setVars, rqVars, dsVars,
           ppVars, accVars, artVars, lpVars, ciVars, coVars, wiVars, paVars>>
notTs == <<mmVars, trVars, genVars, dlVars, cfgVars, setVars, rqVars, dsVars,
           ppVars, accVars, artVars, lpVars, ciVars, coVars, wiVars, paVars>>
notCfg == <<mmVars, trVars, genVars, dlVars, tsVars, setVars, rqVars, dsVars,
            ppVars, accVars, artVars, lpVars, ciVars, coVars, wiVars, paVars>>
notSet == <<mmVars, trVars, genVars, dlVars, tsVars, cfgVars, rqVars, dsVars,
            ppVars, accVars, artVars, lpVars, ciVars, coVars, wiVars, paVars>>
notRq == <<mmVars, trVars, genVars, dlVars, tsVars, cfgVars, setVars, dsVars,
           ppVars, accVars, artVars, lpVars, ciVars, coVars, wiVars, paVars>>
notDs == <<mmVars, trVars, genVars, dlVars, tsVars, cfgVars, setVars, rqVars,
           ppVars, accVars, artVars, lpVars, ciVars, coVars, wiVars, paVars>>
notPp == <<mmVars, trVars, genVars, dlVars, tsVars, cfgVars, setVars, rqVars,
           dsVars, accVars, artVars, lpVars, ciVars, coVars, wiVars, paVars>>
notAcc == <<mmVars, trVars, genVars, dlVars, tsVars, cfgVars, setVars,
            rqVars, dsVars, ppVars, artVars, lpVars, ciVars, coVars, wiVars,
            paVars>>
notArt == <<mmVars, trVars, genVars, dlVars, tsVars, cfgVars, setVars,
            rqVars, dsVars, ppVars, accVars, lpVars, ciVars, coVars, wiVars,
            paVars>>
notLp == <<mmVars, trVars, genVars, dlVars, tsVars, cfgVars, setVars, rqVars,
           dsVars, ppVars, accVars, artVars, ciVars, coVars, wiVars, paVars>>
notCi == <<mmVars, trVars, genVars, dlVars, tsVars, cfgVars, setVars, rqVars,
           dsVars, ppVars, accVars, artVars, lpVars, coVars, wiVars, paVars>>
notCo == <<mmVars, trVars, genVars, dlVars, tsVars, cfgVars, setVars, rqVars,
           dsVars, ppVars, accVars, artVars, lpVars, ciVars, wiVars, paVars>>
notWi == <<mmVars, trVars, genVars, dlVars, tsVars, cfgVars, setVars, rqVars,
           dsVars, ppVars, accVars, artVars, lpVars, ciVars, coVars, paVars>>
notPa == <<mmVars, trVars, genVars, dlVars, tsVars, cfgVars, setVars, rqVars,
           dsVars, ppVars, accVars, artVars, lpVars, ciVars, coVars, wiVars>>

None == "None"

-----------------------------------------------------------------------------
(* ModelManager                                                            *)

\* DEFAULT_MODELS registry keys
ModelIds == {"sdxl-base", "sdxl-turbo", "z-image-turbo"}

\* ids a caller may pass that are not in the registry
UnregisteredIds == {"unknown-id", "SDXL-Base"}

AllIds == ModelIds \cup UnregisteredIds

IsRegistered_any(model_id) == TRUE

\* `model_id not in self.models` negated (load_model line 297)
IsRegistered(model_id) == model_id \in ModelIds

\* objects the manager keeps alive on the device
ManagerResident == {g \in gpu : g[1] = "manager"}

\* dropping the last reference to a pipeline object frees it
ReleasePipeline(g, pipe) == IF pipe = None THEN g ELSE g \ {<<"manager", pipe>>}

NeedsEviction_never(cur_id, model_id) == FALSE

\* line 302: `if self.current_model_id and self.current_model_id != model_id`
NeedsEviction(cur_id, model_id) == cur_id # None /\ cur_id # model_id

AlreadyLoaded_never(cur_id, cur_pipe, model_id) == FALSE

\* line 305: `if self.current_model_id == model_id and self.current_pipeline is not None`
AlreadyLoaded(cur_id, cur_pipe, model_id) == cur_id = model_id /\ cur_pipe # None

UnloadedState_keeps_pipeline(cur_id, cur_pipe, g) ==
    [id |-> None, pipe |-> cur_pipe, gpu |-> g, released |-> 0]

\* unload_model, lines 343-355, as a function of the residency state
UnloadedState(cur_id, cur_pipe, g) ==
    [id |-> None,
     pipe |-> None,
     gpu |-> ReleasePipeline(g, cur_pipe),
     released |-> IF cur_pipe # None THEN 1 ELSE 0]

ExceptState_no_reset(cur_id, cur_pipe, g, pending) ==
    [id |-> cur_id, pipe |-> cur_pipe, gpu |-> ReleasePipeline(g, pending)]

\* except-handler of load_model, lines 335-339
ExceptState(cur_id, cur_pipe, g, pending) ==
    [id |-> None,
     pipe |-> None,
     gpu |-> ReleasePipeline(ReleasePipeline(g, cur_pipe), pending)]

MMInit ==
    /\ current_model_id = None
    /\ current_pipeline = None
    /\ gpu = {}
    /\ mm_pc = "idle"
    /\ mm_arg = None
    /\ mm_new = None
    /\ mm_pre = [id |-> None, pipe |-> None]
    /\ mm_loads = 0
    /\ mm_evictions = 0
    /\ mm_last = [op |-> "none", arg |-> None, ret |-> None, exc |-> FALSE]

\* load_model lines 297-310: registry check, eviction of a different model,
\* already-loaded short cut; otherwise control reaches the try block.
load_model(model_id) ==
    /\ mm_pc = "idle"
    /\ mm_pre' = [id |-> current_model_id, pipe |-> current_pipeline]
    /\ mm_arg' = model_id
    /\ mm_loads' = 0
    /\ mm_new' = None
    /\ IF ~IsRegistered(model_id)
       THEN /\ mm_last' = [op |-> "load", arg |-> model_id, ret |-> FALSE, exc |-> FALSE]
            /\ mm_evictions' = 0
            /\ UNCHANGED <<current_model_id, current_pipeline, gpu, mm_pc>>
       ELSE LET ev == NeedsEviction(current_model_id, model_id)
                u  == UnloadedState(current_model_id, current_pipeline, gpu)
                id1   == IF ev THEN u.id ELSE current_model_id
                pipe1 == IF ev THEN u.pipe ELSE current_pipeline
                gpu1  == IF ev THEN u.gpu ELSE gpu
            IN  /\ current_model_id' = id1
                /\ current_pipeline' = pipe1
                /\ gpu' = gpu1
                /\ mm_evictions' = IF ev THEN u.released ELSE 0
                /\ IF AlreadyLoaded(id1, pipe1, model_id)
                   THEN /\ mm_last' = [op |-> "load", arg |-> model_id, ret |-> TRUE, exc |-> FALSE]
                        /\ mm_pc' = "idle"
                   ELSE /\ mm_pc' = "from_pretrained"
                        /\ UNCHANGED mm_last
    /\ UNCHANGED notMM

\* line 324, right-hand side: AutoPipelineForText2Image.from_pretrained returns
\* a new pipeline object (the previous value of current_pipeline is still held)
load_from_pretrained ==
    /\ mm_pc = "from_pretrained"
    /\ mm_new' = mm_arg
    /\ gpu' = gpu \cup {<<"manager", mm_arg>>}
    /\ mm_loads' = mm_loads + 1
    /\ mm_pc' = "assign"
    /\ UNCHANGED <<current_model_id, current_pipeline, mm_arg, mm_pre,
                   mm_evictions, mm_last>>
    /\ UNCHANGED notMM

\* line 324, the store: self.current_pipeline = <new object>
load_assign ==
    /\ mm_pc = "assign"
    /\ current_pipeline' = mm_new
    /\ gpu' = IF current_pipeline = mm_new THEN gpu
              ELSE ReleasePipeline(gpu, current_pipeline)
    /\ mm_evictions' = mm_evictions
                       + (IF current_pipeline # None /\ current_pipeline # mm_new THEN 1 ELSE 0)
    /\ mm_new' = None
    /\ mm_pc' = "to_device"
    /\ UNCHANGED <<current_model_id, mm_arg, mm_pre, mm_loads, mm_last>>
    /\ UNCHANGED notMM

load_to_device_no_id ==
    /\ mm_pc = "to_device"
    /\ mm_last' = [op |-> "load", arg |-> mm_arg, ret |-> TRUE, exc |-> FALSE]
    /\ mm_pc' = "idle"
    /\ UNCHANGED <<current_model_id, current_pipeline, gpu, mm_arg, mm_new, mm_pre,
                   mm_loads, mm_evictions>>
    /\ UNCHANGED notMM

\* lines 329-333: .to(self.device) succeeded, the id is recorded, return True
load_to_device ==
    /\ mm_pc = "to_device"
    /\ current_model_id' = mm_arg
    /\ mm_last' = [op |-> "load", arg |-> mm_arg, ret |-> TRUE, exc |-> FALSE]
    /\ mm_pc' = "idle"
    /\ UNCHANGED <<current_pipeline, gpu, mm_arg, mm_new, mm_pre, mm_loads,
                   mm_evictions>>
    /\ UNCHANGED notMM

\* lines 335-339: is_model_downloaded, from_pretrained or .to raised
load_except ==
    /\ mm_pc \in {"from_pretrained", "to_device"}
    /\ LET x == ExceptState(current_model_id, current_pipeline, gpu, mm_new)
       IN  /\ current_model_id' = x.id
           /\ current_pipeline' = x.pipe
           /\ gpu' = x.gpu
    /\ mm_new' = None
    /\ mm_last' = [op |-> "load", arg |-> mm_arg, ret |-> FALSE, exc |-> TRUE]
    /\ mm_pc' = "idle"
    /\ UNCHANGED <<mm_arg, mm_pre, mm_loads, mm_evictions>>
    /\ UNCHANGED notMM

\* unload_model lines 341-355, called on its own (cleanup() is the same call)
unload_model ==
    /\ mm_pc = "idle"
    /\ mm_pre' = [id |-> current_model_id, pipe |-> current_pipeline]
    /\ LET u == UnloadedState(current_model_id, current_pipeline, gpu)
       IN  /\ current_model_id' = u.id
           /\ current_pipeline' = u.pipe
           /\ gpu' = u.gpu
           /\ mm_evictions' = u.released
    /\ mm_loads' = 0
    /\ mm_arg' = None
    /\ mm_last' = [op |-> "unload", arg |-> None, ret |-> None, exc |-> FALSE]
    /\ UNCHANGED <<mm_pc, mm_new>>
    /\ UNCHANGED notMM

MMNext ==
    \/ \E model_id \in AllIds : load_model(model_id)
    \/ load_from_pretrained
    \/ load_assign
    \/ load_to_device
    \/ load_except
    \/ unload_model

-----------------------------------------------------------------------------
(* LoraTrainingLoop.train                                                  *)

\* largest len(train_dataloader) explored
MaxBatches == 3

\* largest gradient_accumulation_steps explored
MaxAccum == 2

\* config.num_class_images, scaled down
NumClassImages == 2

\* config.pretrained_model_name resolves to the SDXL base model
TrainingBaseModel == "sdxl-base"

\* the attributes __init__ sets to None (lines 60-66), in the order _load_models fills them
Components == <<"tokenizer_one", "tokenizer_two", "noise_scheduler",
                "text_encoder_one", "text_encoder_two", "vae", "unet">>

\* the stage names of the training state machine, in order
StageOrder == <<"GeneratingClassImages", "LoadingModels", "Training",
                "SavingWeights", "CleaningUp", "Done">>

StageIndex(st) == CHOOSE i \in 1..Len(StageOrder) : StageOrder[i] = st

\* objects a training run put on the device
TrainingResident == {g \in gpu : g[1] \in {"class_pipeline", "training_unet"}}

TrInit ==
    /\ tr_pc = "idle"
    /\ tr_prior = FALSE
    /\ tr_accum = 1
    /\ tr_num_batches = 1
    /\ tr_stages = <<>>
    /\ tr_loaded = {}
    /\ tr_cleaned = FALSE
    /\ tr_files = {}
    /\ tr_class_dir = 0
    /\ tr_existing = 0
    /\ tr_i = 0
    /\ tr_step = 0
    /\ tr_global_step = 0
    /\ tr_total_steps = 0

\* positions at which the code of train can raise
TrFailable == {"class_images", "class_pipeline", "class_generate", "load_models",
               "to_device", "setup", "training", "saving", "saving_sidecar"}

\* a new LoraTrainingLoop (lora_trainer.py line 125) and train lines 303-321:
\* the class-image stage is entered only with prior preservation
train(prior, accum, nb) ==
    /\ tr_pc \in {"idle", "returned", "raised"}
    /\ tr_prior' = prior
    /\ tr_accum' = accum
    /\ tr_num_batches' = nb
    /\ tr_loaded' = {}
    /\ tr_cleaned' = FALSE
    /\ tr_files' = {}
    /\ tr_existing' = 0
    /\ tr_i' = 0
    /\ tr_step' = 0
    /\ tr_global_step' = 0
    /\ tr_total_steps' = 0
    /\ gpu' = gpu \ TrainingResident
    /\ IF prior
       THEN /\ tr_stages' = <<"GeneratingClassImages">>
            /\ tr_pc' = "class_images"
       ELSE /\ tr_stages' = <<"LoadingModels">>
            /\ tr_pc' = "load_models"
    /\ UNCHANGED tr_class_dir
    /\ UNCHANGED notTr

\* _generate_class_images lines 193-210: enough images -> return (and train
\* goes on to _load_models), otherwise the pipeline is needed
generate_class_images_check ==
    /\ tr_pc = "class_images"
    /\ tr_existing' = tr_class_dir
    /\ tr_i' = 0
    /\ IF tr_class_dir >= NumClassImages
       THEN /\ tr_pc' = "load_models"
            /\ tr_stages' = Append(tr_stages, "LoadingModels")
       ELSE /\ tr_pc' = "class_pipeline"
            /\ UNCHANGED tr_stages
    /\ UNCHANGED <<tr_prior, tr_accum, tr_num_batches, tr_loaded, tr_cleaned,
                   tr_files, tr_class_dir, tr_step, tr_global_step,
                   tr_total_steps, gpu>>
    /\ UNCHANGED notTr

\* lines 212-226: StableDiffusionXLPipeline.from_pretrained(...).to(self.device)
class_pipeline_create ==
    /\ tr_pc = "class_pipeline"
    /\ gpu' = gpu \cup {<<"class_pipeline", TrainingBaseModel>>}
    /\ tr_pc' = "class_generate"
    /\ UNCHANGED <<tr_prior, tr_accum, tr_num_batches, tr_stages, tr_loaded,
                   tr_cleaned, tr_files, tr_class_dir, tr_existing, tr_i,
                   tr_step, tr_global_step, tr_total_steps>>
    /\ UNCHANGED notTr

\* lines 228-243: one iteration of the generation loop writes one image
class_generate_image ==
    /\ tr_pc = "class_generate"
    /\ tr_i < NumClassImages - tr_existing
    /\ tr_class_dir' = tr_class_dir + 1
    /\ tr_i' = tr_i + 1
    /\ UNCHANGED <<tr_pc, tr_prior, tr_accum, tr_num_batches, tr_stages,
                   tr_loaded, tr_cleaned, tr_files, tr_existing, tr_step,
                   tr_global_step, tr_total_steps, gpu>>
    /\ UNCHANGED notTr

\* lines 245-264: del pipeline, empty_cache; train then calls _load_models
class_pipeline_free ==
    /\ tr_pc = "class_generate"
    /\ tr_i >= NumClassImages - tr_existing
    /\ gpu' = gpu \ {<<"class_pipeline", TrainingBaseModel>>}
    /\ tr_pc' = "load_models"
    /\ tr_stages' = Append(tr_stages, "LoadingModels")
    /\ UNCHANGED <<tr_prior, tr_accum, tr_num_batches, tr_loaded, tr_cleaned,
                   tr_files, tr_class_dir, tr_existing, tr_i, tr_step,
                   tr_global_step, tr_total_steps>>
    /\ UNCHANGED notTr

\* _load_models lines 91-145: the next from_pretrained call fills one attribute
load_component ==
    /\ tr_pc = "load_models"
    /\ Cardinality(tr_loaded) < Len(Components)
    /\ tr_loaded' = tr_loaded \cup {Components[Cardinality(tr_loaded) + 1]}
    /\ IF Cardinality(tr_loaded) + 1 = Len(Components)
       THEN tr_pc' = "to_device"
       ELSE tr_pc' = "load_models"
    /\ UNCHANGED <<tr_prior, tr_accum, tr_num_batches, tr_stages, tr_cleaned,
                   tr_files, tr_class_dir, tr_existing, tr_i, tr_step,
                   tr_global_step, tr_total_steps, gpu>>
    /\ UNCHANGED notTr

\* _load_models lines 147-189: vae and unet moved to the device, LoRA applied
load_models_to_device ==
    /\ tr_pc = "to_device"
    /\ gpu' = gpu \cup {<<"training_unet", TrainingBaseModel>>}
    /\ tr_pc' = "setup"
    /\ UNCHANGED <<tr_prior, tr_accum, tr_num_batches, tr_stages, tr_loaded,
                   tr_cleaned, tr_files, tr_class_dir, tr_existing, tr_i,
                   tr_step, tr_global_step, tr_total_steps>>
    /\ UNCHANGED notTr

\* train lines 324-392: dataset, data loader, optimizer, total_steps
\* (max_train_steps is None), scheduler; the loop is entered
training_setup ==
    /\ tr_pc = "setup"
    /\ tr_total_steps' = tr_num_batches \div tr_accum
    /\ tr_step' = 0
    /\ tr_global_step' = 0
    /\ tr_pc' = "training"
    /\ tr_stages' = Append(tr_stages, "Training")
    /\ UNCHANGED <<tr_prior, tr_accum, tr_num_batches, tr_loaded, tr_cleaned,
                   tr_files, tr_class_dir, tr_existing, tr_i, gpu>>
    /\ UNCHANGED notTr

\* train lines 394-513: one batch; every tr_accum-th batch is a global step
training_batch ==
    /\ tr_pc = "training"
    /\ tr_step < tr_num_batches
    /\ tr_global_step < tr_total_steps
    /\ tr_step' = tr_step + 1
    /\ tr_global_step' = IF (tr_step + 1) % tr_accum = 0
                         THEN tr_global_step + 1 ELSE tr_global_step
    /\ UNCHANGED <<tr_pc, tr_prior, tr_accum, tr_num_batches, tr_stages,
                   tr_loaded, tr_cleaned, tr_files, tr_class_dir, tr_existing,
                   tr_i, tr_total_steps, gpu>>
    /\ UNCHANGED notTr

\* the loop ends (break at line 395-396 or loader exhausted); lines 515-517
training_end ==
    /\ tr_pc = "training"
    /\ (tr_step >= tr_num_batches \/ tr_global_step >= tr_total_steps)
    /\ tr_pc' = "saving"
    /\ tr_stages' = Append(tr_stages, "SavingWeights")
    /\ UNCHANGED <<tr_prior, tr_accum, tr_num_batches, tr_loaded, tr_cleaned,
                   tr_files, tr_class_dir, tr_existing, tr_i, tr_step,
                   tr_global_step, tr_total_steps, gpu>>
    /\ UNCHANGED notTr

\* _save_lora_weights lines 530-559: the .safetensors artifact
save_lora_weights ==
    /\ tr_pc = "saving"
    /\ tr_files' = tr_files \cup {"safetensors"}
    /\ tr_pc' = "saving_sidecar"
    /\ UNCHANGED <<tr_prior, tr_accum, tr_num_batches, tr_stages, tr_loaded,
                   tr_cleaned, tr_class_dir, tr_existing, tr_i, tr_step,
                   tr_global_step, tr_total_steps, gpu>>
    /\ UNCHANGED notTr

\* _save_lora_weights lines 561-576: the _metadata.json sidecar; train line 520
save_metadata ==
    /\ tr_pc = "saving_sidecar"
    /\ tr_files' = tr_files \cup {"metadata"}
    /\ tr_pc' = "cleanup"
    /\ tr_stages' = Append(tr_stages, "CleaningUp")
    /\ UNCHANGED <<tr_prior, tr_accum, tr_num_batches, tr_loaded, tr_cleaned,
                   tr_class_dir, tr_existing, tr_i, tr_step, tr_global_step,
                   tr_total_steps, gpu>>
    /\ UNCHANGED notTr

\* _cleanup lines 578-600, then train lines 522-528 return output_path
cleanup ==
    /\ tr_pc = "cleanup"
    /\ tr_loaded' = {}
    /\ gpu' = gpu \ {<<"training_unet", TrainingBaseModel>>}
    /\ tr_cleaned' = TRUE
    /\ tr_pc' = "returned"
    /\ tr_stages' = Append(tr_stages, "Done")
    /\ UNCHANGED <<tr_prior, tr_accum, tr_num_batches, tr_files, tr_class_dir,
                   tr_existing, tr_i, tr_step, tr_global_step, tr_total_steps>>
    /\ UNCHANGED notTr

train_raise_retry ==
    /\ tr_pc \in TrFailable
    /\ tr_pc' = "load_models"
    /\ tr_loaded' = {}
    /\ tr_stages' = Append(tr_stages, "LoadingModels")
    /\ UNCHANGED <<tr_prior, tr_accum, tr_num_batches, tr_cleaned, tr_files,
                   tr_class_dir, tr_existing, tr_i, tr_step, tr_global_step,
                   tr_total_steps, gpu>>
    /\ UNCHANGED notTr

\* an exception in train (lines 293-528 hold no try block): it propagates to
\* the caller from wherever it was raised
train_raise ==
    /\ tr_pc \in TrFailable
    /\ tr_pc' = "raised"
    /\ tr_stages' = Append(tr_stages, "Failed")
    /\ UNCHANGED <<tr_prior, tr_accum, tr_num_batches, tr_loaded, tr_cleaned,
                   tr_files, tr_class_dir, tr_existing, tr_i, tr_step,
                   tr_global_step, tr_total_steps, gpu>>
    /\ UNCHANGED notTr

TrNext ==
    \/ \E prior \in BOOLEAN, accum \in 1..MaxAccum, nb \in 1..MaxBatches :
           train(prior, accum, nb)
    \/ generate_class_images_check
    \/ class_pipeline_create
    \/ class_generate_image
    \/ class_pipeline_free
    \/ load_component
    \/ load_models_to_device
    \/ training_setup
    \/ training_batch
    \/ training_end
    \/ save_lora_weights
    \/ save_metadata
    \/ cleanup
    \/ train_raise

-----------------------------------------------------------------------------
(* ImageGenerator.generate / generate_with_progress                        *)

\* largest num_inference_steps explored
MaxSteps == 3

\* longest loras list explored
MaxLoras == 2

\* adapter files a request may name
LoraFiles == {"a.safetensors", "b.safetensors"}

\* the loras arguments explored: lists without repetition (None/[] is <<>>)
LoraRequests ==
    {<<>>} \cup
    UNION {{q \in [1..n -> LoraFiles] : \A i, j \in 1..n : i # j => q[i] # q[j]}
           : n \in 1..MaxLoras}

\* what can happen to one adapter in load_loras lines 78-97
LoraOutcomes == {"missing", "weights_failed", "strength_failed", "attached"}

\* ModelConfig.supports_lora of the registry entries (lines 70, 83, 96),
\* read through ModelManager.supports_lora() lines 381-389
SupportsLora(model_id) ==
    IF model_id \in ModelIds THEN model_id # "z-image-turbo" ELSE TRUE

\* ProgressCallback.__call__ lines 45-52 for callback argument step
ProgressEvent(step) == [event |-> "progress", step |-> step + 1]

\* ProgressCallback.complete lines 63-71
CompleteEvent == [event |-> "complete", step |-> gen_N]

\* ProgressCallback.error lines 75-80 (step stays None)
ErrorEvent == [event |-> "error", step |-> 0]

\* the percentage field of an event built without one: ProgressEvent.percentage
\* defaults to None (progress_callback.py line 13), written -1 here
NoPercentage == -1

ProgressPercentage_remaining(step, total_steps) ==
    10000 - ((2 * (step + 1) * 10000 + total_steps) \div (2 * total_steps))

\* ProgressCallback.__call__ lines 45, 50: round(((step + 1) / total_steps)
\* * 100, 2), in hundredths of a percent (rounded to the nearest)
ProgressPercentage(step, total_steps) ==
    (2 * (step + 1) * 10000 + total_steps) \div (2 * total_steps)

\* the percentage field of an event of the stream whose total_steps is
\* total_steps, in hundredths of a percent: lines 50, 68 (100.0), and none
\* for the error event of lines 75-80
EventPercentage(ev, total_steps) ==
    CASE ev.event = "progress" -> ProgressPercentage(ev.step - 1, total_steps)
      [] ev.event = "complete" -> 10000
      [] OTHER -> NoPercentage

GenInit ==
    /\ gen_mm_set \in BOOLEAN
    /\ gen_pc = "idle"
    /\ gen_variant = "generate"
    /\ gen_loras = <<>>
    /\ gen_outcomes = <<>>
    /\ gen_loaded_any = FALSE
    /\ gen_saved = FALSE
    /\ gen_mkdir = FALSE
    /\ gen_error = None
    /\ pipe_loaded = {}
    /\ pipe_active = {}
    /\ gen_N = 1
    /\ w_pc = "not_started"
    /\ w_step = 0
    /\ loop_ready = <<>>
    /\ future_state = "pending"
    /\ gen_queue = <<>>
    /\ gen_yielded = <<>>

\* a manager between calls: nothing resident, or one registered model resident
MMResident ==
    /\ current_model_id \in ModelIds \cup {None}
    /\ current_pipeline = current_model_id
    /\ gpu = IF current_model_id = None THEN {} ELSE {<<"manager", current_model_id>>}
    /\ mm_pc = "idle"
    /\ mm_arg = None
    /\ mm_new = None
    /\ mm_pre = [id |-> None, pipe |-> None]
    /\ mm_loads = 0
    /\ mm_evictions = 0
    /\ mm_last = [op |-> "none", arg |-> None, ret |-> None, exc |-> FALSE]

PipelineAvailable_always == TRUE

\* load_pipeline() lines 45-59 with no model_id: does it return normally
PipelineAvailable == gen_mm_set /\ current_pipeline # None

\* generate lines 124-134 / generate_with_progress lines 190-204 up to the
\* call of load_loras: load_pipeline raises when nothing is resident
generate_call(variant, loras, n) ==
    /\ gen_pc \in {"idle", "returned", "raised", "ended"}
    /\ gen_variant' = variant
    /\ gen_loras' = loras
    /\ gen_N' = n
    /\ gen_outcomes' = <<>>
    /\ gen_loaded_any' = FALSE
    /\ gen_saved' = FALSE
    /\ gen_mkdir' = FALSE
    /\ w_pc' = "not_started"
    /\ w_step' = 0
    /\ loop_ready' = <<>>
    /\ future_state' = "pending"
    /\ gen_queue' = <<>>
    /\ gen_yielded' = <<>>
    /\ IF ~PipelineAvailable
       THEN gen_pc' = "raised" /\ gen_error' = "no_model"
       ELSE /\ gen_error' = None
            /\ gen_pc' = IF loras # <<>> THEN "load_loras" ELSE "prepare"
    /\ UNCHANGED <<gen_mm_set, pipe_loaded, pipe_active>>
    /\ UNCHANGED notGen

\* load_loras lines 66-74: the resident model does not take adapters
load_loras_unsupported ==
    /\ gen_pc = "load_loras"
    /\ ~SupportsLora(current_model_id)
    /\ gen_pc' = "prepare"
    /\ UNCHANGED <<gen_mm_set, gen_mkdir, gen_variant, gen_loras, gen_outcomes,
                   gen_loaded_any, gen_saved, gen_error, pipe_loaded,
                   pipe_active, gen_N, w_pc, w_step, loop_ready, future_state,
                   gen_queue, gen_yielded>>
    /\ UNCHANGED notGen

\* lora.strength of the adapter references explored (line 90), in tenths
LoraStrength(file) == IF file = "a.safetensors" THEN 8 ELSE 5

load_lora_abort(outcome) ==
    /\ gen_pc = "load_loras"
    /\ SupportsLora(current_model_id)
    /\ Len(gen_outcomes) < Len(gen_loras)
    /\ LET name == gen_loras[Len(gen_outcomes) + 1] IN
       /\ gen_outcomes' = Append(gen_outcomes, outcome)
       /\ pipe_loaded' = IF outcome \in {"strength_failed", "attached"}
                         THEN pipe_loaded \cup {name} ELSE pipe_loaded
       /\ pipe_active' = IF outcome = "attached"
                         THEN {<<name, LoraStrength(name)>>} ELSE pipe_active
       /\ gen_loaded_any' = (gen_loaded_any \/ outcome = "attached")
    /\ IF outcome \in {"weights_failed", "strength_failed"}
       THEN gen_pc' = "raised" /\ gen_error' = "adapter"
       ELSE UNCHANGED <<gen_pc, gen_error>>
    /\ UNCHANGED <<gen_mm_set, gen_mkdir, gen_variant, gen_loras, gen_saved,
                   gen_N, w_pc, w_step, loop_ready, future_state,
                   gen_queue, gen_yielded>>
    /\ UNCHANGED notGen

\* load_loras lines 77-97: one iteration of the loop over the adapters.
\* A file that does not exist is skipped (lines 78, 96-97); an exception of
\* load_lora_weights or set_adapters is caught (lines 94-95).
\* set_adapters([name], adapter_weights=[lora.strength]) makes the listed
\* adapter, and only it, the active one
load_lora(outcome) ==
    /\ gen_pc = "load_loras"
    /\ SupportsLora(current_model_id)
    /\ Len(gen_outcomes) < Len(gen_loras)
    /\ LET name == gen_loras[Len(gen_outcomes) + 1] IN
       /\ gen_outcomes' = Append(gen_outcomes, outcome)
       /\ pipe_loaded' = IF outcome \in {"strength_failed", "attached"}
                         THEN pipe_loaded \cup {name} ELSE pipe_loaded
       /\ pipe_active' = IF outcome = "attached"
                         THEN {<<name, LoraStrength(name)>>} ELSE pipe_active
       /\ gen_loaded_any' = (gen_loaded_any \/ outcome = "attached")
    /\ UNCHANGED <<gen_mm_set, gen_mkdir, gen_pc, gen_variant, gen_loras,
                   gen_saved, gen_error, gen_N, w_pc, w_step, loop_ready,
                   future_state, gen_queue, gen_yielded>>
    /\ UNCHANGED notGen

\* load_loras line 99: return loaded_any
load_loras_return ==
    /\ gen_pc = "load_loras"
    /\ SupportsLora(current_model_id)
    /\ Len(gen_outcomes) = Len(gen_loras)
    /\ gen_pc' = "prepare"
    /\ UNCHANGED <<gen_mm_set, gen_mkdir, gen_variant, gen_loras, gen_outcomes,
                   gen_loaded_any, gen_saved, gen_error, pipe_loaded,
                   pipe_active, gen_N, w_pc, w_step, loop_ready, future_state,
                   gen_queue, gen_yielded>>
    /\ UNCHANGED notGen

\* generate lines 136-148; generate_with_progress lines 206-237: output
\* directory and file name, and for the streamed variant the callback and
\* the executor thread
prepare ==
    /\ gen_pc = "prepare"
    /\ gen_mkdir' = TRUE
    /\ IF gen_variant = "generate"
       THEN /\ gen_pc' = "sample"
            /\ UNCHANGED w_pc
       ELSE /\ gen_pc' = "poll"
            /\ w_pc' = "running"
    /\ UNCHANGED <<gen_mm_set, gen_variant, gen_loras, gen_outcomes,
                   gen_loaded_any, gen_saved, gen_error, pipe_loaded,
                   pipe_active, gen_N, w_step, loop_ready, future_state,
                   gen_queue, gen_yielded>>
    /\ UNCHANGED notGen

\* pipeline.unload_lora_weights() under `if loras_loaded` with its try/except
\* (generate lines 162-166, generate_with_progress lines 267-271)
AfterUnload(loaded_any, ok, attached) ==
    IF loaded_any /\ ok THEN {} ELSE attached

\* generate lines 151-155: the sampling call returned an image
sample ==
    /\ gen_pc = "sample"
    /\ gen_pc' = "save"
    /\ UNCHANGED <<gen_mm_set, gen_mkdir, gen_variant, gen_loras, gen_outcomes,
                   gen_loaded_any, gen_saved, gen_error, pipe_loaded,
                   pipe_active, gen_N, w_pc, w_step, loop_ready, future_state,
                   gen_queue, gen_yielded>>
    /\ UNCHANGED notGen

\* generate lines 158-168: image saved, adapters unloaded, path returned
save_and_return(unload_ok) ==
    /\ gen_pc = "save"
    /\ gen_saved' = TRUE
    /\ pipe_loaded' = AfterUnload(gen_loaded_any, unload_ok, pipe_loaded)
    /\ pipe_active' = AfterUnload(gen_loaded_any, unload_ok, pipe_active)
    /\ gen_pc' = "returned"
    /\ UNCHANGED <<gen_mm_set, gen_mkdir, gen_variant, gen_loras, gen_outcomes,
                   gen_loaded_any, gen_error, gen_N, w_pc, w_step, loop_ready,
                   future_state, gen_queue, gen_yielded>>
    /\ UNCHANGED notGen

\* generate: pipeline(...) (line 151) or image.save (line 158) raised; the
\* exception leaves generate
generate_raise ==
    /\ gen_pc \in {"sample", "save"}
    /\ gen_error' = IF gen_pc = "sample" THEN "sampling" ELSE "saving"
    /\ gen_pc' = "raised"
    /\ UNCHANGED <<gen_mm_set, gen_mkdir, gen_variant, gen_loras, gen_outcomes,
                   gen_loaded_any, gen_saved, pipe_loaded, pipe_active, gen_N,
                   w_pc, w_step, loop_ready, future_state, gen_queue,
                   gen_yielded>>
    /\ UNCHANGED notGen

\* the pipeline thread finishes one inference step and calls the callback:
\* ProgressCallback.__call__ lines 40-59 schedules the put on the event loop
worker_step ==
    /\ w_pc = "running"
    /\ w_step < gen_N
    /\ loop_ready' = Append(loop_ready, [cb |-> "put", ev |-> ProgressEvent(w_step)])
    /\ w_step' = w_step + 1
    /\ UNCHANGED <<gen_mm_set, gen_mkdir, gen_pc, gen_variant, gen_loras, gen_outcomes,
                   gen_loaded_any, gen_saved, gen_error, pipe_loaded,
                   pipe_active, gen_N, w_pc, future_state, gen_queue,
                   gen_yielded>>
    /\ UNCHANGED notGen

\* run_pipeline lines 226-233 returns the image; the executor future's done
\* callback schedules the completion of the asyncio future on the event loop
worker_return ==
    /\ w_pc = "running"
    /\ w_step = gen_N
    /\ w_pc' = "returned"
    /\ loop_ready' = Append(loop_ready, [cb |-> "set_done", ev |-> [event |-> "ok", step |-> 0]])
    /\ UNCHANGED <<gen_mm_set, gen_mkdir, gen_pc, gen_variant, gen_loras, gen_outcomes,
                   gen_loaded_any, gen_saved, gen_error, pipe_loaded,
                   pipe_active, gen_N, w_step, future_state, gen_queue,
                   gen_yielded>>
    /\ UNCHANGED notGen

\* run_pipeline raises (at any step, or after the last one)
worker_raise ==
    /\ w_pc = "running"
    /\ w_pc' = "raised"
    /\ loop_ready' = Append(loop_ready, [cb |-> "set_done", ev |-> [event |-> "exc", step |-> 0]])
    /\ UNCHANGED <<gen_mm_set, gen_mkdir, gen_pc, gen_variant, gen_loras, gen_outcomes,
                   gen_loaded_any, gen_saved, gen_error, pipe_loaded,
                   pipe_active, gen_N, w_step, future_state, gen_queue,
                   gen_yielded>>
    /\ UNCHANGED notGen

\* the event loop runs its oldest scheduled callback while the generator is
\* suspended (in the await of line 243 or at a yield)
loop_run_callback ==
    /\ gen_pc \in {"poll", "wait", "drain"}
    /\ loop_ready # <<>>
    /\ LET c == Head(loop_ready) IN
       IF c.cb = "put"
       THEN gen_queue' = Append(gen_queue, c.ev) /\ UNCHANGED future_state
       ELSE future_state' = c.ev.event /\ UNCHANGED gen_queue
    /\ loop_ready' = Tail(loop_ready)
    /\ UNCHANGED <<gen_mm_set, gen_mkdir, gen_pc, gen_variant, gen_loras, gen_outcomes,
                   gen_loaded_any, gen_saved, gen_error, pipe_loaded,
                   pipe_active, gen_N, w_pc, w_step, gen_yielded>>
    /\ UNCHANGED notGen

poll_check_forever ==
    /\ gen_pc = "poll"
    /\ gen_pc' = "wait"
    /\ UNCHANGED <<gen_mm_set, gen_mkdir, gen_variant, gen_loras, gen_outcomes,
                   gen_loaded_any, gen_saved, gen_error, pipe_loaded,
                   pipe_active, gen_N, w_pc, w_step, loop_ready, future_state,
                   gen_queue, gen_yielded>>
    /\ UNCHANGED notGen

\* line 240: while not future.done()
poll_check ==
    /\ gen_pc = "poll"
    /\ gen_pc' = IF future_state = "pending" THEN "wait" ELSE "drain"
    /\ UNCHANGED <<gen_mm_set, gen_mkdir, gen_variant, gen_loras, gen_outcomes,
                   gen_loaded_any, gen_saved, gen_error, pipe_loaded,
                   pipe_active, gen_N, w_pc, w_step, loop_ready, future_state,
                   gen_queue, gen_yielded>>
    /\ UNCHANGED notGen

\* lines 243-247: queue.get() delivered an event within the timeout; yield it
wait_event ==
    /\ gen_pc = "wait"
    /\ gen_queue # <<>>
    /\ gen_yielded' = Append(gen_yielded, Head(gen_queue))
    /\ gen_queue' = Tail(gen_queue)
    /\ gen_pc' = "poll"
    /\ UNCHANGED <<gen_mm_set, gen_mkdir, gen_variant, gen_loras, gen_outcomes,
                   gen_loaded_any, gen_saved, gen_error, pipe_loaded,
                   pipe_active, gen_N, w_pc, w_step, loop_ready, future_state>>
    /\ UNCHANGED notGen

\* lines 248-250: asyncio.TimeoutError, continue (a cancelled get takes nothing)
wait_timeout ==
    /\ gen_pc = "wait"
    /\ gen_pc' = "poll"
    /\ UNCHANGED <<gen_mm_set, gen_mkdir, gen_variant, gen_loras, gen_outcomes,
                   gen_loaded_any, gen_saved, gen_error, pipe_loaded,
                   pipe_active, gen_N, w_pc, w_step, loop_ready, future_state,
                   gen_queue, gen_yielded>>
    /\ UNCHANGED notGen

drain_skip ==
    /\ gen_pc = "drain"
    /\ gen_pc' = "result"
    /\ UNCHANGED <<gen_mm_set, gen_mkdir, gen_variant, gen_loras, gen_outcomes,
                   gen_loaded_any, gen_saved, gen_error, pipe_loaded,
                   pipe_active, gen_N, w_pc, w_step, loop_ready, future_state,
                   gen_queue, gen_yielded>>
    /\ UNCHANGED notGen

\* lines 252-258: yield whatever is still queued, then go on to the result
drain ==
    /\ gen_pc = "drain"
    /\ IF gen_queue # <<>>
       THEN /\ gen_yielded' = Append(gen_yielded, Head(gen_queue))
            /\ gen_queue' = Tail(gen_queue)
            /\ UNCHANGED gen_pc
       ELSE /\ gen_pc' = "result"
            /\ UNCHANGED <<gen_queue, gen_yielded>>
    /\ UNCHANGED <<gen_mm_set, gen_mkdir, gen_variant, gen_loras, gen_outcomes,
                   gen_loaded_any, gen_saved, gen_error, pipe_loaded,
                   pipe_active, gen_N, w_pc, w_step, loop_ready, future_state>>
    /\ UNCHANGED notGen

\* lines 261-275: future.result() is the image, it is saved, the adapters
\* are unloaded, the complete event is queued and the head of the queue yielded
result_complete(unload_ok) ==
    /\ gen_pc = "result"
    /\ future_state = "ok"
    /\ gen_saved' = TRUE
    /\ pipe_loaded' = AfterUnload(gen_loaded_any, unload_ok, pipe_loaded)
    /\ pipe_active' = AfterUnload(gen_loaded_any, unload_ok, pipe_active)
    /\ LET q == Append(gen_queue, CompleteEvent) IN
       /\ gen_yielded' = Append(gen_yielded, Head(q))
       /\ gen_queue' = Tail(q)
    /\ gen_pc' = "ended"
    /\ UNCHANGED <<gen_mm_set, gen_mkdir, gen_variant, gen_loras, gen_outcomes,
                   gen_loaded_any, gen_error, gen_N, w_pc, w_step, loop_ready,
                   future_state>>
    /\ UNCHANGED notGen

\* lines 277-280: future.result() re-raised the thread's exception, or
\* image.save raised; the error event is queued and the head of the queue yielded
result_error ==
    /\ gen_pc = "result"
    /\ gen_error' = IF future_state = "exc" THEN "sampling" ELSE "saving"
    /\ LET q == Append(gen_queue, ErrorEvent) IN
       /\ gen_yielded' = Append(gen_yielded, Head(q))
       /\ gen_queue' = Tail(q)
    /\ gen_pc' = "ended"
    /\ UNCHANGED <<gen_mm_set, gen_mkdir, gen_variant, gen_loras, gen_outcomes,
                   gen_loaded_any, gen_saved, pipe_loaded, pipe_active, gen_N,
                   w_pc, w_step, loop_ready, future_state>>
    /\ UNCHANGED notGen

GenNext ==
    \/ \E variant \in {"generate", "stream"}, loras \in LoraRequests, n \in 1..MaxSteps :
           generate_call(variant, loras, n)
    \/ load_loras_unsupported
    \/ \E outcome \in LoraOutcomes : load_lora(outcome)
    \/ load_loras_return
    \/ prepare
    \/ sample
    \/ \E unload_ok \in BOOLEAN : save_and_return(unload_ok)
    \/ generate_raise
    \/ worker_step
    \/ worker_return
    \/ worker_raise
    \/ loop_run_callback
    \/ poll_check
    \/ wait_event
    \/ wait_timeout
    \/ drain
    \/ \E unload_ok \in BOOLEAN : result_complete(unload_ok)
    \/ result_error

-----------------------------------------------------------------------------
(* ModelManager.download_model (model_manager.py lines 192-285)            *)

\* DownloadProgress lines 45-54 with the fields the model follows;
\* percentage has the dataclass default 0.0 where the code does not pass it
DownloadProgress(event, percentage) == [event |-> event, percentage |-> percentage]

\* the error events of lines 208-212, 266-270, 274-278, 281-285: no percentage given
DownloadError == DownloadProgress("error", 0)

\* is_model_downloaded lines 171-190: the directory exists and holds a marker file
IsModelDownloaded(model_id, dirs, markers) == model_id \in dirs /\ model_id \in markers

\* a fresh installation: no model directory yet
DlInit ==
    /\ dl_pc = "idle"
    /\ dl_id = None
    /\ dl_events = <<>>
    /\ dl_dirs = {}
    /\ dl_markers = {}
    /\ dl_pre = {}
    /\ dl_fetch = "none"

download_model_unchecked(model_id) ==
    /\ dl_id' = model_id
    /\ dl_pre' = dl_dirs
    /\ dl_fetch' = "none"
    /\ dl_events' = <<DownloadProgress("progress", 0)>>
    /\ dl_pc' = "after_0"
    /\ UNCHANGED <<dl_dirs, dl_markers>>
    /\ UNCHANGED notDl

\* lines 207-226: a new generator is created and run up to its first yield
\* (an earlier generator may have been left at any of its yields)
download_model(model_id) ==
    /\ dl_id' = model_id
    /\ dl_pre' = dl_dirs
    /\ dl_fetch' = "none"
    /\ IF model_id \notin ModelIds
       THEN /\ dl_events' = <<DownloadError>>
            /\ dl_pc' = "done"
       ELSE /\ dl_events' = <<DownloadProgress("progress", 0)>>
            /\ dl_pc' = "after_0"
    /\ UNCHANGED <<dl_dirs, dl_markers>>
    /\ UNCHANGED notDl

\* lines 229-239: the model directory is made, then the 5% event
download_mkdir ==
    /\ dl_pc = "after_0"
    /\ dl_dirs' = dl_dirs \cup {dl_id}
    /\ dl_events' = Append(dl_events, DownloadProgress("progress", 5))
    /\ dl_pc' = "after_5"
    /\ UNCHANGED <<dl_id, dl_markers, dl_pre, dl_fetch>>
    /\ UNCHANGED notDl

\* line 229 raises (the directory cannot be made); lines 279-285
download_mkdir_raise ==
    /\ dl_pc = "after_0"
    /\ dl_id \notin dl_dirs
    /\ dl_events' = Append(dl_events, DownloadError)
    /\ dl_pc' = "done"
    /\ UNCHANGED <<dl_id, dl_dirs, dl_markers, dl_pre, dl_fetch>>
    /\ UNCHANGED notDl

\* lines 244-256: snapshot_download returned (with or without a marker file
\* in the directory), then the 95% event
download_fetch(marker) ==
    /\ dl_pc = "after_5"
    /\ dl_fetch' = "ok"
    /\ dl_markers' = IF marker THEN dl_markers \cup {dl_id} ELSE dl_markers
    /\ dl_events' = Append(dl_events, DownloadProgress("progress", 95))
    /\ dl_pc' = "after_95"
    /\ UNCHANGED <<dl_id, dl_dirs, dl_pre>>
    /\ UNCHANGED notDl

\* snapshot_download raised (lines 273-285), having written a marker file or not
download_fetch_raise(marker) ==
    /\ dl_pc = "after_5"
    /\ dl_fetch' = "raised"
    /\ dl_markers' = IF marker THEN dl_markers \cup {dl_id} ELSE dl_markers
    /\ dl_events' = Append(dl_events, DownloadError)
    /\ dl_pc' = "done"
    /\ UNCHANGED <<dl_id, dl_dirs, dl_pre>>
    /\ UNCHANGED notDl

download_verify_skip ==
    /\ dl_pc = "after_95"
    /\ dl_events' = Append(dl_events, DownloadProgress("complete", 100))
    /\ dl_pc' = "done"
    /\ UNCHANGED <<dl_id, dl_dirs, dl_markers, dl_pre, dl_fetch>>
    /\ UNCHANGED notDl

\* lines 258-271: the marker-file check decides between complete and error
download_verify ==
    /\ dl_pc = "after_95"
    /\ dl_events' = Append(dl_events,
                           IF IsModelDownloaded(dl_id, dl_dirs, dl_markers)
                           THEN DownloadProgress("complete", 100)
                           ELSE DownloadError)
    /\ dl_pc' = "done"
    /\ UNCHANGED <<dl_id, dl_dirs, dl_markers, dl_pre, dl_fetch>>
    /\ UNCHANGED notDl

DlNext ==
    \/ \E model_id \in AllIds : download_model(model_id)
    \/ download_mkdir
    \/ download_mkdir_raise
    \/ \E marker \in BOOLEAN : download_fetch(marker)
    \/ \E marker \in BOOLEAN : download_fetch_raise(marker)
    \/ download_verify

-----------------------------------------------------------------------------
(* POST /train-lora/stream (main.py lines 190-339)                         *)

\* most progress_callback invocations of one training explored
MaxTrainEvents == 2

\* upload sizes explored: none, one, the largest allowed, one too many
ImageCounts == {0, 1, 5, 6}

\* str(e) of the exceptions the training may raise (an exception built
\* without arguments has the empty message)
ExcMessages == {"", "CUDA out of memory"}

\* the None that run_training puts on progress_queue when it is over (line 269)
EndOfWork == [event |-> None]

\* Python truth value of result_holder["error"] (line 298)
Truthy(x) == x # None /\ x # ""

TsInit ==
    /\ ts_pc = "idle"
    /\ ts_thread = "not_started"
    /\ ts_outcome = "none"
    /\ ts_emitted = 0
    /\ ts_queue = <<>>
    /\ ts_result = [path |-> None, error |-> None]
    /\ ts_temp = FALSE
    /\ ts_sent = <<>>

\* lines 212-224, 331-339: validation of the upload (error_gen sends one
\* error event), else the images are saved and the response is created
train_lora_stream(n_images) ==
    /\ ts_pc \in {"idle", "done"}
    /\ ts_thread \in {"not_started", "dead"}
    /\ ts_outcome' = "none"
    /\ ts_emitted' = 0
    /\ ts_queue' = <<>>
    /\ ts_result' = [path |-> None, error |-> None]
    /\ ts_thread' = "not_started"
    /\ IF n_images = 0 \/ n_images > 5
       THEN /\ ts_sent' = <<[event |-> "error", error |-> "images"]>>
            /\ ts_temp' = FALSE
            /\ ts_pc' = "done"
       ELSE /\ ts_sent' = <<>>
            /\ ts_temp' = TRUE
            /\ ts_pc' = "start"
    /\ UNCHANGED notTs

\* lines 227-273: event_generator starts the training thread
ts_start ==
    /\ ts_pc = "start"
    /\ ts_thread' = "running"
    /\ ts_pc' = "poll"
    /\ UNCHANGED <<ts_outcome, ts_emitted, ts_queue, ts_result, ts_temp, ts_sent>>
    /\ UNCHANGED notTs

\* lines 230-232: the training calls progress_callback
ts_worker_progress ==
    /\ ts_thread = "running"
    /\ ts_emitted < MaxTrainEvents
    /\ ts_emitted' = ts_emitted + 1
    /\ ts_queue' = Append(ts_queue, [event |-> "progress", n |-> ts_emitted + 1])
    /\ UNCHANGED <<ts_pc, ts_thread, ts_outcome, ts_result, ts_temp, ts_sent>>
    /\ UNCHANGED notTs

\* lines 241-262: lora_trainer.train returned the path of the weights
ts_worker_return ==
    /\ ts_thread = "running"
    /\ ts_outcome' = "returned"
    /\ ts_result' = [ts_result EXCEPT !.path = "lora.safetensors"]
    /\ ts_thread' = "finally"
    /\ UNCHANGED <<ts_pc, ts_emitted, ts_queue, ts_temp, ts_sent>>
    /\ UNCHANGED notTs

\* lines 263-266: the training raised; result_holder["error"] = str(e)
ts_worker_raise(msg) ==
    /\ ts_thread = "running"
    /\ ts_outcome' = "raised"
    /\ ts_result' = [ts_result EXCEPT !.error = msg]
    /\ ts_thread' = "finally"
    /\ UNCHANGED <<ts_pc, ts_emitted, ts_queue, ts_temp, ts_sent>>
    /\ UNCHANGED notTs

\* lines 267-269: finally, progress_queue.put(None)
ts_worker_finally ==
    /\ ts_thread = "finally"
    /\ ts_queue' = Append(ts_queue, EndOfWork)
    /\ ts_thread' = "exiting"
    /\ UNCHANGED <<ts_pc, ts_outcome, ts_emitted, ts_result, ts_temp, ts_sent>>
    /\ UNCHANGED notTs

\* run_training has returned: is_alive() is False from now on
ts_worker_exit ==
    /\ ts_thread = "exiting"
    /\ ts_thread' = "dead"
    /\ UNCHANGED <<ts_pc, ts_outcome, ts_emitted, ts_queue, ts_result, ts_temp, ts_sent>>
    /\ UNCHANGED notTs

\* lines 280-286: progress_queue.get returned an item
ts_get ==
    /\ ts_pc = "poll"
    /\ ts_queue # <<>>
    /\ ts_queue' = Tail(ts_queue)
    /\ IF Head(ts_queue) = EndOfWork
       THEN ts_pc' = "final" /\ UNCHANGED ts_sent
       ELSE ts_sent' = Append(ts_sent, Head(ts_queue)) /\ UNCHANGED ts_pc
    /\ UNCHANGED <<ts_thread, ts_outcome, ts_emitted, ts_result, ts_temp>>
    /\ UNCHANGED notTs

\* lines 280, 288: progress_queue.get timed out on an empty queue
ts_get_empty ==
    /\ ts_pc = "poll"
    /\ ts_queue = <<>>
    /\ ts_pc' = "check_alive"
    /\ UNCHANGED <<ts_thread, ts_outcome, ts_emitted, ts_queue, ts_result, ts_temp, ts_sent>>
    /\ UNCHANGED notTs

\* lines 289-292: leave the loop when the thread is no longer alive
ts_check_alive ==
    /\ ts_pc = "check_alive"
    /\ ts_pc' = IF ts_thread = "dead" THEN "final" ELSE "poll"
    /\ UNCHANGED <<ts_thread, ts_outcome, ts_emitted, ts_queue, ts_result, ts_temp, ts_sent>>
    /\ UNCHANGED notTs

\* the final event of lines 297-314
FinalEvent(result) ==
    IF Truthy(result.error)
    THEN [event |-> "error", error |-> result.error]
    ELSE [event |-> "complete", lora_path |-> result.path]

\* lines 294-329: join, the final event, and the temporary files removed
ts_final ==
    /\ ts_pc = "final"
    /\ ts_sent' = Append(ts_sent, FinalEvent(ts_result))
    /\ ts_temp' = FALSE
    /\ ts_pc' = "done"
    /\ UNCHANGED <<ts_thread, ts_outcome, ts_emitted, ts_queue, ts_result>>
    /\ UNCHANGED notTs

TsNext ==
    \/ \E n_images \in ImageCounts : train_lora_stream(n_images)
    \/ ts_start
    \/ ts_worker_progress
    \/ ts_worker_return
    \/ \E msg \in ExcMessages : ts_worker_raise(msg)
    \/ ts_worker_finally
    \/ ts_worker_exit
    \/ ts_get
    \/ ts_get_empty
    \/ ts_check_alive
    \/ ts_final

-----------------------------------------------------------------------------
(* LoraTrainingConfig and the trigger word (training_config.py lines 76-93, *)
(* lora_trainer.py lines 80-103, main.py lines 169-174 and 255-260).       *)
(* A str is a sequence of one-character strings; an Optional value is the  *)
(* empty sequence (None) or a one-element sequence holding the value.      *)

\* longest lora_name explored
MaxNameLen == 2

Absent == <<>>

Some(v) == <<v>>

\* characters a lora_name or trigger word is made of here
NameChars == {"a", "B", "7", "-"}

\* str.isalnum() of one character, for the characters that occur
IsAlnum(c) == c \in {"a", "b", "B", "c", "k", "s", "t", "0", "1", "2", "7"}

\* str.lower() of one character, for the characters that occur
Lower(c) == IF c = "B" THEN "b" ELSE c

\* "".join(c for c in name if c.isalnum()).lower()
SafeName(name) ==
    LET kept == SelectSeq(name, IsAlnum) IN
    [i \in 1..Len(kept) |-> Lower(kept[i])]

\* f"sks_{safe_name.lower()}"
SksWord(name) == <<"s", "k", "s", "_">> \o SafeName(name)

\* the lora_name arguments explored
Names == UNION {[1..n -> NameChars] : n \in 0..MaxNameLen}

\* the trigger_word arguments explored: None, "", and two words
TriggerWords == {Absent, Some(<<>>), Some(<<"B">>), Some(<<"a", "-">>)}

\* values of datetime.now().strftime("%Y%m%d_%H%M%S") (lora_trainer.py
\* line 81), shortened to digits, an underscore, digits
Timestamps == {<<"2", "0", "_", "1", "0">>, <<"2", "0", "_", "1", "1">>}

\* the num_train_epochs arguments explored (None or a count)
EpochInputs == {Absent} \cup {Some(e) : e \in {1, 40, 50, 51, 67, 68, 200}}

\* the num_class_images values explored
ClassImageInputs == {1, 24, 25, 26, 50}

\* len(image_paths) of the requests explored
TrainImageCounts == {1, 3, 5}

\* Python truth value of an Optional[str]
StrTruthy(opt) == opt # Absent /\ opt[1] # <<>>

\* get_recommended_settings lines 147-170, "num_train_epochs"
RecommendedEpochs(num_images) ==
    IF num_images <= 2 THEN 200 ELSE IF num_images <= 4 THEN 150 ELSE 100

\* int(x * 0.75) for a non-negative int x
ThreeQuarters(x) == (3 * x) \div 4

Max(a, b) == IF a >= b THEN a ELSE b

\* LoraTrainingConfig.__post_init__ lines 76-88 applied to the constructor
\* arguments: the fields the model follows
LoraTrainingConfig(lora_name, original_name, trigger_word, num_train_epochs, num_class_images, fast_mode) ==
    [lora_name |-> lora_name,
     num_class_images |-> IF fast_mode THEN 25 ELSE num_class_images,
     num_train_epochs |-> IF fast_mode
                          THEN Max(50, ThreeQuarters(num_train_epochs))
                          ELSE num_train_epochs,
     trigger_word |-> IF trigger_word = Absent
                      THEN SksWord(IF StrTruthy(original_name)
                                   THEN original_name[1] ELSE lora_name)
                      ELSE trigger_word[1]]

\* LoraTrainer.train lines 80-103: the config a request is trained with
TrainerConfig(in) ==
    LoraTrainingConfig(in.lora_name \o <<"_">> \o in.timestamp,
                       Some(in.lora_name),
                       in.trigger_word,
                       IF in.num_train_epochs = Absent
                       THEN RecommendedEpochs(in.n_images)
                       ELSE in.num_train_epochs[1],
                       50,
                       in.fast_mode)

\* main.py lines 171-174: the trigger word in the /train-lora response
ResponseTriggerWord(lora_name, trigger_word) ==
    IF ~StrTruthy(trigger_word) THEN SksWord(lora_name) ELSE trigger_word[1]

\* main.py lines 256-260: the trigger word in the complete event of
\* /train-lora/stream
StreamTriggerWord(lora_name, trigger_word) ==
    IF StrTruthy(trigger_word) THEN trigger_word[1] ELSE SksWord(lora_name)

\* the arguments, before anything is computed from them
CfgInit ==
    /\ cfg_in \in [lora_name : Names, trigger_word : TriggerWords,
                    timestamp : Timestamps, num_train_epochs : EpochInputs,
                    num_class_images : ClassImageInputs,
                    n_images : TrainImageCounts, fast_mode : BOOLEAN]
    /\ cfg_pc = "input"
    /\ cfg = LoraTrainingConfig(<<>>, Absent, Absent, 100, 50, FALSE)
    /\ cfg_word = <<>>

\* LoraTrainingConfig(...) built directly from the arguments (no
\* original_name; num_train_epochs defaults to 100, line 35)
config_init ==
    /\ cfg_pc = "input"
    /\ cfg' = LoraTrainingConfig(cfg_in.lora_name, Absent, cfg_in.trigger_word,
                                 IF cfg_in.num_train_epochs = Absent THEN 100
                                 ELSE cfg_in.num_train_epochs[1],
                                 cfg_in.num_class_images, cfg_in.fast_mode)
    /\ cfg_pc' = "config"
    /\ UNCHANGED <<cfg_in, cfg_word>>
    /\ UNCHANGED notCfg

\* POST /train-lora, main.py lines 154-181: the training and the response
train_lora ==
    /\ cfg_pc = "input"
    /\ cfg' = TrainerConfig(cfg_in)
    /\ cfg_word' = ResponseTriggerWord(cfg_in.lora_name, cfg_in.trigger_word)
    /\ cfg_pc' = "train_lora"
    /\ UNCHANGED cfg_in
    /\ UNCHANGED notCfg

\* POST /train-lora/stream, main.py lines 241-260, 306-312: the training and
\* the complete event
train_lora_stream_complete ==
    /\ cfg_pc = "input"
    /\ cfg' = TrainerConfig(cfg_in)
    /\ cfg_word' = StreamTriggerWord(cfg_in.lora_name, cfg_in.trigger_word)
    /\ cfg_pc' = "train_lora_stream"
    /\ UNCHANGED cfg_in
    /\ UNCHANGED notCfg

CfgNext ==
    \/ config_init
    \/ train_lora
    \/ train_lora_stream_complete

-----------------------------------------------------------------------------
(* Training settings by image count: LoraTrainer.train lines 84-103,       *)
(* LoraTrainer.get_recommended_settings lines 137-170 and                  *)
(* LoraTrainingConfig.for_image_count lines 104-137.                       *)
(* A learning rate is written in millionths: 1e-4 is 100, 5e-5 is 50.      *)

\* largest image count given to the lookups (they take any integer)
MaxImageCount == 7

\* image counts given to the lookups: negative, zero, 1..5 and beyond
ImageCountRange == (0 - 2)..MaxImageCount

RecommendedSettings_flat(num_images) ==
    [num_train_epochs |-> 100, learning_rate |-> 100, lora_rank |-> 8]

\* get_recommended_settings lines 147-170
RecommendedSettings(num_images) ==
    IF num_images <= 2
    THEN [num_train_epochs |-> 200, learning_rate |-> 50, lora_rank |-> 4]
    ELSE IF num_images <= 4
         THEN [num_train_epochs |-> 150, learning_rate |-> 100, lora_rank |-> 8]
         ELSE [num_train_epochs |-> 100, learning_rate |-> 100, lora_rank |-> 8]

\* for_image_count lines 112-133: the defaults dictionary
ForImageCountDefaults(num_images) ==
    IF num_images <= 2
    THEN [num_train_epochs |-> 200, learning_rate |-> 50, lora_rank |-> 4]
    ELSE IF num_images <= 4
         THEN [num_train_epochs |-> 150, learning_rate |-> 100, lora_rank |-> 8]
         ELSE [num_train_epochs |-> 100, learning_rate |-> 100, lora_rank |-> 8]

\* LoraTrainer.train lines 44-46 and 84-103: the defaults of the signature
\* (learning_rate 1e-4, lora_rank 8) stand in for what the caller left out,
\* and the table is consulted only under `if num_train_epochs is None`
TrainerSettings(num_images, num_train_epochs, lora_rank, learning_rate) ==
    LET rank == IF lora_rank = Absent THEN 8 ELSE lora_rank[1]
        lr == IF learning_rate = Absent THEN 100 ELSE learning_rate[1]
        recommended == RecommendedSettings(num_images)
    IN  IF num_train_epochs = Absent
        THEN [num_train_epochs |-> recommended.num_train_epochs,
              learning_rate |-> lr,
              lora_rank |-> IF rank = 8 THEN recommended.lora_rank ELSE rank]
        ELSE [num_train_epochs |-> num_train_epochs[1],
              learning_rate |-> lr,
              lora_rank |-> rank]

\* the lora_rank and learning_rate arguments explored (None: not given)
RankInputs == {Absent, Some(4), Some(8), Some(16)}

LearningRateInputs == {Absent, Some(50), Some(100), Some(200)}

NoSettings == [num_train_epochs |-> 0, learning_rate |-> 0, lora_rank |-> 0]

\* the arguments, before anything is computed from them
SetInit ==
    /\ set_in \in [n_images : 1..5, other_images : ImageCountRange,
                    num_train_epochs : {Absent, Some(40), Some(200)},
                    lora_rank : RankInputs, learning_rate : LearningRateInputs]
    /\ set_pc = {}
    /\ set_train = NoSettings
    /\ set_rec = <<NoSettings, NoSettings>>
    /\ set_fic = <<NoSettings, NoSettings>>

\* no training request has been received
SetIdle ==
    /\ SetInit
    /\ set_in = [n_images |-> 1, other_images |-> 1, num_train_epochs |-> Absent,
                 lora_rank |-> Absent, learning_rate |-> Absent]

\* LoraTrainer.train lines 84-103 for a request of n_images images
trainer_settings ==
    /\ "train" \notin set_pc
    /\ set_train' = TrainerSettings(set_in.n_images, set_in.num_train_epochs,
                                    set_in.lora_rank, set_in.learning_rate)
    /\ set_pc' = set_pc \cup {"train"}
    /\ UNCHANGED <<set_in, set_rec, set_fic>>
    /\ UNCHANGED notSet

\* get_recommended_settings called for each of the two image counts
get_recommended_settings ==
    /\ "recommended" \notin set_pc
    /\ set_rec' = <<RecommendedSettings(set_in.n_images),
                    RecommendedSettings(set_in.other_images)>>
    /\ set_pc' = set_pc \cup {"recommended"}
    /\ UNCHANGED <<set_in, set_train, set_fic>>
    /\ UNCHANGED notSet

\* for_image_count called for each of the two image counts, no overrides
for_image_count ==
    /\ "for_image_count" \notin set_pc
    /\ set_fic' = <<ForImageCountDefaults(set_in.n_images),
                    ForImageCountDefaults(set_in.other_images)>>
    /\ set_pc' = set_pc \cup {"for_image_count"}
    /\ UNCHANGED <<set_in, set_train, set_rec>>
    /\ UNCHANGED notSet

SetNext ==
    \/ trainer_settings
    \/ get_recommended_settings
    \/ for_image_count

-----------------------------------------------------------------------------
(* A training request: POST /train-lora (main.py lines 113-187) and a      *)
(* direct call of LoraTrainer.train (lora_trainer.py lines 39-135), with   *)
(* FileHandler.save_temp_images and cleanup_temp_files.                    *)

\* largest number of images sent with a request
MaxUpload == 6

RqInit ==
    /\ rq_pc = "idle"
    /\ rq_entry = "none"
    /\ rq_n = 0
    /\ rq_temp = FALSE
    /\ rq_user_dir = FALSE
    /\ rq_worker = FALSE
    /\ rq_response = "none"

train_lora_post_unvalidated(n) ==
    /\ rq_pc = "idle"
    /\ rq_entry' = "endpoint"
    /\ rq_n' = n
    /\ rq_temp' = TRUE
    /\ rq_pc' = "saved"
    /\ UNCHANGED <<rq_user_dir, rq_worker, rq_response>>
    /\ UNCHANGED notRq

\* main.py lines 142-151 and 183-187: the HTTPException(400) of the
\* validation is raised inside the try and caught by `except Exception`,
\* which answers 500; else save_temp_images (file_handler.py lines 21-48)
\* makes the temp directory and writes the images
train_lora_post(n) ==
    /\ rq_pc = "idle"
    /\ rq_entry' = "endpoint"
    /\ rq_n' = n
    /\ IF n = 0 \/ n > 5
       THEN /\ rq_response' = "500"
            /\ rq_pc' = "done"
            /\ UNCHANGED rq_temp
       ELSE /\ rq_temp' = TRUE
            /\ rq_pc' = "saved"
            /\ UNCHANGED rq_response
    /\ UNCHANGED <<rq_user_dir, rq_worker>>
    /\ UNCHANGED notRq

\* LoraTrainer.train lines 70-129: validation (ValueError, which the
\* endpoint answers with 500 and no cleanup), the user directory, the
\* configuration, and the executor that runs the training
TrainerStart(entry, n) ==
    IF n = 0 \/ n > 5
    THEN /\ rq_response' = (IF entry = "endpoint" THEN "500" ELSE "ValueError")
         /\ rq_pc' = "done"
         /\ UNCHANGED <<rq_user_dir, rq_worker>>
    ELSE /\ rq_user_dir' = TRUE
         /\ rq_worker' = TRUE
         /\ rq_pc' = "training"
         /\ UNCHANGED rq_response

\* LoraTrainer.train called directly with n image paths
lora_trainer_train(n) ==
    /\ rq_pc = "idle"
    /\ rq_entry' = "direct"
    /\ rq_n' = n
    /\ TrainerStart("direct", n)
    /\ UNCHANGED rq_temp
    /\ UNCHANGED notRq

\* main.py lines 154-164: the endpoint calls lora_trainer.train
train_lora_call_train ==
    /\ rq_pc = "saved"
    /\ TrainerStart(rq_entry, rq_n)
    /\ UNCHANGED <<rq_entry, rq_n, rq_temp>>
    /\ UNCHANGED notRq

\* the training returned the path: lora_trainer.py lines 131-135; the
\* endpoint then runs cleanup_temp_files (main.py line 167, file_handler.py
\* lines 50-68) and answers 200 (lines 176-181)
training_return ==
    /\ rq_pc = "training"
    /\ rq_pc' = "done"
    /\ IF rq_entry = "endpoint"
       THEN rq_temp' = FALSE /\ rq_response' = "200"
       ELSE rq_response' = "returned" /\ UNCHANGED rq_temp
    /\ UNCHANGED <<rq_entry, rq_n, rq_user_dir, rq_worker>>
    /\ UNCHANGED notRq

\* the training raised: the exception leaves LoraTrainer.train; the endpoint
\* catches it at main.py lines 183-187 and answers 500, line 167 is skipped
training_raise ==
    /\ rq_pc = "training"
    /\ rq_pc' = "done"
    /\ rq_response' = (IF rq_entry = "endpoint" THEN "500" ELSE "raised")
    /\ UNCHANGED <<rq_entry, rq_n, rq_temp, rq_user_dir, rq_worker>>
    /\ UNCHANGED notRq

RqNext ==
    \/ \E n \in 0..MaxUpload : train_lora_post(n)
    \/ \E n \in 0..MaxUpload : lora_trainer_train(n)
    \/ train_lora_call_train
    \/ training_return
    \/ training_raise

-----------------------------------------------------------------------------
(* DreamBoothDataset: __len__ and the instance image of __getitem__        *)
(* (dreambooth_dataset.py lines 107-135), built by LoraTrainingLoop.train  *)
(* with num_repeats = num_train_epochs (training_loop.py lines 326-336).   *)

\* largest repeat factor explored
MaxRepeats == 3

\* LoraTrainer.train accepts 1 to 5 images (lora_trainer.py lines 71-74)
MaxInstanceImages == 5

NoItem == [index |-> -1, instance_idx |-> -1]

InstanceIdx_clamped(index, num_instance_images) ==
    IF index < num_instance_images THEN index ELSE num_instance_images - 1

\* __getitem__ line 116: index % self.num_instance_images
InstanceIdx(index, num_instance_images) ==
    index % num_instance_images

\* __len__ line 109
DatasetLen(num_instance_images, num_repeats) ==
    num_instance_images * num_repeats

\* __init__ lines 56-65 for the explored image counts and repeat factors
DsInit ==
    /\ ds_k \in 1..MaxInstanceImages
    /\ ds_e \in 1..MaxRepeats
    /\ ds_len = -1
    /\ ds_prev = NoItem
    /\ ds_last = NoItem

\* no dataset has been asked for anything
DsIdle ==
    /\ DsInit
    /\ ds_k = 1
    /\ ds_e = 1

dataset_len ==
    /\ ds_len' = DatasetLen(ds_k, ds_e)
    /\ UNCHANGED <<ds_k, ds_e, ds_prev, ds_last>>
    /\ UNCHANGED notDs

\* __getitem__ for an index the sampler can produce
dataset_getitem(index) ==
    /\ index < DatasetLen(ds_k, ds_e)
    /\ ds_prev' = ds_last
    /\ ds_last' = [index |-> index, instance_idx |-> InstanceIdx(index, ds_k)]
    /\ UNCHANGED <<ds_k, ds_e, ds_len>>
    /\ UNCHANGED notDs

DsNext ==
    \/ dataset_len
    \/ \E index \in 0..(MaxInstanceImages * MaxRepeats - 1) : dataset_getitem(index)

-----------------------------------------------------------------------------
(* Prior preservation in one training run: the class-image directory       *)
(* (training_loop.py lines 191-262, 311-317), the class images of the      *)
(* dataset (dreambooth_dataset.py lines 66-76, 126-133, 148-152) and the   *)
(* prior term of the loss (training_loop.py lines 446-486).                *)

\* most *.png files an earlier run left in the class-image directory, and
\* largest config.num_class_images
MaxClassPngs == 2

\* config.prior_loss_weight (training_config.py line 47), never overridden
PriorLossWeight == 1

\* loss values of one batch, as small integers
LossValues == {1, 2}

NoBatch == [class_data |-> FALSE, instance_loss |-> 0, class_loss |-> 0, loss |-> 0]

\* the configuration and the directory an earlier run may have left behind
PpInit ==
    /\ pp_pc = "setup"
    /\ pp_prior \in BOOLEAN
    /\ pp_class_prompt \in {"", "a photo"}
    /\ pp_want \in 0..MaxClassPngs
    /\ pp_dir \in {d \in [exists : BOOLEAN, pngs : 0..MaxClassPngs] : ~d.exists => d.pngs = 0}
    /\ pp_touched = {}
    /\ pp_class_images = -1
    /\ pp_batch = NoBatch

\* no training run
PpIdle ==
    /\ PpInit
    /\ pp_prior /\ pp_class_prompt = "a photo" /\ pp_want = 0
    /\ pp_dir = [exists |-> FALSE, pngs |-> 0]

\* training_loop.py lines 311-317 with _generate_class_images (191-262):
\* only with prior preservation the directory is made, listed, and filled
\* up to num_class_images
setup_class_images ==
    /\ pp_pc = "setup"
    /\ pp_pc' = "dataset"
    /\ IF pp_prior
       THEN /\ pp_dir' = [exists |-> TRUE, pngs |-> Max(pp_dir.pngs, pp_want)]
            /\ pp_touched' = pp_touched \cup {"mkdir", "glob"}
                    \cup (IF pp_dir.pngs >= pp_want THEN {} ELSE {"write"})
       ELSE UNCHANGED <<pp_dir, pp_touched>>
    /\ UNCHANGED <<pp_prior, pp_class_prompt, pp_want, pp_class_images, pp_batch>>
    /\ UNCHANGED notPp

create_dataset_any_dir ==
    /\ pp_pc = "dataset"
    /\ pp_pc' = "train"
    /\ IF pp_dir.exists
       THEN /\ pp_class_images' = pp_dir.pngs
            /\ pp_touched' = pp_touched \cup {"exists", "glob", "read"}
       ELSE /\ pp_class_images' = 0
            /\ pp_touched' = pp_touched \cup {"exists"}
    /\ UNCHANGED <<pp_prior, pp_class_prompt, pp_want, pp_dir, pp_batch>>
    /\ UNCHANGED notPp

\* training_loop.py lines 326-336 and DreamBoothDataset.__init__ lines
\* 66-76: class_data_dir is None without prior preservation, and
\* `class_data_dir and Path(class_data_dir).exists()` then looks at nothing;
\* else the sorted *.png files (at most 100) are opened
create_dataset ==
    /\ pp_pc = "dataset"
    /\ pp_pc' = "train"
    /\ IF pp_prior
       THEN IF pp_dir.exists
            THEN /\ pp_class_images' = pp_dir.pngs
                 /\ pp_touched' = pp_touched \cup {"exists", "glob", "read"}
            ELSE /\ pp_class_images' = 0
                 /\ pp_touched' = pp_touched \cup {"exists"}
       ELSE /\ pp_class_images' = 0
            /\ UNCHANGED pp_touched
    /\ UNCHANGED <<pp_prior, pp_class_prompt, pp_want, pp_dir, pp_batch>>
    /\ UNCHANGED notPp

\* one batch (train_batch_size 1): __getitem__ lines 126-133 adds class data
\* when the dataset has class images and the class prompt was tokenized
\* (lines 91-96: `if class_prompt`), collate_fn lines 148-152 keeps it, and
\* training_loop.py lines 446-486 computes the loss
prior_training_batch(instance_loss, class_loss) ==
    /\ pp_pc = "train"
    /\ LET class_data == pp_class_images > 0 /\ pp_class_prompt # ""
       IN  pp_batch' = [class_data |-> class_data,
                        instance_loss |-> instance_loss,
                        class_loss |-> class_loss,
                        loss |-> IF pp_prior /\ class_data
                                 THEN instance_loss + PriorLossWeight * class_loss
                                 ELSE instance_loss]
    /\ UNCHANGED <<pp_pc, pp_prior, pp_class_prompt, pp_want, pp_dir, pp_touched,
                   pp_class_images>>
    /\ UNCHANGED notPp

\* the last batch has been trained
prior_training_end ==
    /\ pp_pc = "train"
    /\ pp_batch # NoBatch
    /\ pp_pc' = "done"
    /\ UNCHANGED <<pp_prior, pp_class_prompt, pp_want, pp_dir, pp_touched,
                   pp_class_images, pp_batch>>
    /\ UNCHANGED notPp

PpNext ==
    \/ setup_class_images
    \/ create_dataset
    \/ \E il \in LossValues, cl \in LossValues : prior_training_batch(il, cl)
    \/ prior_training_end

-----------------------------------------------------------------------------
(* ModelManager.get_inference_steps and supports_lora (model_manager.py    *)
(* lines 371-389) over the registry of lines 58-98.                        *)

\* the model_id arguments explored: None (left out), every registered and
\* unregistered id, and the empty string
AccessorArgs == {None, ""} \cup AllIds

ResolveModelId_resident(model_id, current) == current

\* lines 373-374 and 383-384: `if model_id is None: model_id = self.current_model_id`
ResolveModelId(model_id, current) ==
    IF model_id = None THEN current ELSE model_id

\* lines 376-379 for the resolved id, with ModelConfig.inference_steps of the
\* registry entries (lines 66, 79, 92)
InferenceSteps(model_id) ==
    IF model_id # None /\ model_id # "" /\ model_id \in ModelIds
    THEN CASE model_id = "sdxl-base" -> 30
           [] model_id = "sdxl-turbo" -> 4
           [] model_id = "z-image-turbo" -> 8
    ELSE 30

AccInit ==
    /\ acc_steps = [called |-> FALSE, model_id |-> None, current |-> None, value |-> 0]
    /\ acc_lora = [called |-> FALSE, model_id |-> None, current |-> None, value |-> FALSE]

get_inference_steps(model_id) ==
    /\ acc_steps' = [called |-> TRUE, model_id |-> model_id, current |-> current_model_id,
                     value |-> InferenceSteps(ResolveModelId(model_id, current_model_id))]
    /\ UNCHANGED acc_lora
    /\ UNCHANGED notAcc

supports_lora(model_id) ==
    /\ acc_lora' = [called |-> TRUE, model_id |-> model_id, current |-> current_model_id,
                    value |-> SupportsLora(ResolveModelId(model_id, current_model_id))]
    /\ UNCHANGED acc_steps
    /\ UNCHANGED notAcc

AccNext ==
    \/ \E model_id \in AccessorArgs : get_inference_steps(model_id)
    \/ \E model_id \in AccessorArgs : supports_lora(model_id)

-----------------------------------------------------------------------------
(* The artifacts of a training run and their listing: _save_lora_weights   *)
(* (training_loop.py lines 530-576) and LoraTrainer.get_user_loras         *)
(* (lora_trainer.py lines 172-213). A JSON value is a record with one      *)
(* field named after its type: [str |-> s], [int |-> n], [float |-> x],    *)
(* [bool |-> b]. A file name is a str whose last element is its ending.    *)

\* training runs of the user that are followed
MaxRuns == 2

DigitChars == <<"0", "1", "2", "3", "4", "5", "6", "7", "8", "9">>

RECURSIVE IntStr(_)
\* str(n) of a non-negative int: its decimal digits
IntStr(n) ==
    IF n < 10 THEN <<DigitChars[n + 1]>>
    ELSE Append(IntStr(n \div 10), DigitChars[(n % 10) + 1])

\* the default of metadata.get(key, "unknown") (lora_trainer.py lines 208-209)
Unknown == <<"u", "n", "k", "n", "o", "w", "n">>

\* the fields of the config that the artifacts record: LoraTrainer.train
\* lines 80-103 with the defaults of training_config.py lines 23, 28, 70
ArtConfig(in) ==
    LET c == TrainerConfig([lora_name |-> in.lora_name, trigger_word |-> in.trigger_word,
                            timestamp |-> in.timestamp, num_train_epochs |-> Absent,
                            n_images |-> 1, fast_mode |-> FALSE])
    IN  [lora_name |-> c.lora_name,
         trigger_word |-> c.trigger_word,
         num_train_epochs |-> c.num_train_epochs,
         lora_rank |-> in.lora_rank,
         lora_alpha |-> 16,
         learning_rate |-> 100,
         resolution |-> 1024,
         with_prior_preservation |-> in.prior,
         base_model |-> <<"stabilityai/stable-diffusion-xl-base-1.0">>]

\* _save_lora_weights lines 542-550 and 562-568: full_metadata as json.dump
\* writes it; lora_rank and lora_alpha were passed through str()
FullMetadata(config) ==
    [trigger_word |-> [str |-> config.trigger_word],
     lora_name |-> [str |-> config.lora_name],
     lora_rank |-> [str |-> IntStr(config.lora_rank)],
     lora_alpha |-> [str |-> IntStr(config.lora_alpha)],
     base_model |-> [str |-> config.base_model],
     learning_rate |-> [float |-> config.learning_rate],
     num_train_epochs |-> [int |-> config.num_train_epochs],
     resolution |-> [int |-> config.resolution],
     with_prior_preservation |-> [bool |-> config.with_prior_preservation]]

\* line 556: output_dir / f"{lora_name}.safetensors"
OutputFile(lora_name) == Append(lora_name, ".safetensors")

\* line 560: output_dir / f"{lora_name}_metadata.json"
MetadataFile(lora_name) == Append(lora_name, "_metadata.json")

MetadataFileOf_suffix(lora_file) == Append(lora_file, "_metadata.json")

\* get_user_loras lines 188-190: lora_file.stem + "_metadata.json"
MetadataFileOf(lora_file) ==
    Append(SubSeq(lora_file, 1, Len(lora_file) - 1), "_metadata.json")

\* the arguments of the runs explored
ArtInputs ==
    [lora_name : {<<"c", "a", "t">>, <<"a", "-">>},
     trigger_word : {Absent, Some(<<"B">>)},
     timestamp : Timestamps,
     lora_rank : {4, 16},
     prior : BOOLEAN]

ArtInit ==
    /\ art_in = [lora_name |-> <<"c", "a", "t">>, trigger_word |-> Absent,
                 timestamp |-> <<"2", "0", "_", "1", "0">>, lora_rank |-> 4,
                 prior |-> TRUE]
    /\ art_pc = "idle"
    /\ art_runs = 0
    /\ art_cfg = ArtConfig(art_in)
    /\ art_weights = {}
    /\ art_sidecars = {}
    /\ art_written = {}
    /\ art_listing = {}

\* LoraTrainer.train lines 80-103: a run starts with its config
start_training(in) ==
    /\ art_pc \in {"idle", "saved", "failed"}
    /\ art_runs < MaxRuns
    /\ art_runs' = art_runs + 1
    /\ art_in' = in
    /\ art_cfg' = ArtConfig(in)
    /\ art_written' = {}
    /\ art_listing' = {}
    /\ art_pc' = "training"
    /\ UNCHANGED <<art_weights, art_sidecars>>
    /\ UNCHANGED notArt

\* a file of that name is replaced
WriteSidecar(sidecars, file) ==
    {s \in sidecars : s.name # file.name} \cup {file}

\* _save_lora_weights lines 530-576 running to its end
save_lora_artifacts ==
    /\ art_pc = "training"
    /\ art_weights' = art_weights \cup {OutputFile(art_cfg.lora_name)}
    /\ art_written' = {OutputFile(art_cfg.lora_name)}
    /\ art_sidecars' = WriteSidecar(art_sidecars,
                            [name |-> MetadataFile(art_cfg.lora_name), readable |-> TRUE,
                             data |-> FullMetadata(art_cfg)])
    /\ art_pc' = "saved"
    /\ UNCHANGED <<art_in, art_runs, art_cfg, art_listing>>
    /\ UNCHANGED notArt

\* _save_lora_weights raising after save_file (line 557): open (line 568)
\* fails and there is no sidecar, or json.dump (line 569) fails and the
\* sidecar is cut short
save_lora_artifacts_raise(partial) ==
    /\ art_pc = "training"
    /\ art_weights' = art_weights \cup {OutputFile(art_cfg.lora_name)}
    /\ art_written' = {OutputFile(art_cfg.lora_name)}
    /\ art_sidecars' =
            IF partial
            THEN WriteSidecar(art_sidecars,
                    [name |-> MetadataFile(art_cfg.lora_name), readable |-> FALSE,
                     data |-> FullMetadata(art_cfg)])
            ELSE art_sidecars
    /\ art_pc' = "failed"
    /\ UNCHANGED <<art_in, art_runs, art_cfg, art_listing>>
    /\ UNCHANGED notArt

\* get_user_loras lines 186-210 for one *.safetensors file: metadata stays
\* {} when the sidecar is missing or json.load raises (`except: pass`)
LoraInfo(lora_file, sidecars) ==
    LET found == {s \in sidecars : s.name = MetadataFileOf(lora_file) /\ s.readable}
    IN  IF found = {}
        THEN [filename |-> lora_file, trigger_word |-> Unknown, lora_rank |-> Unknown]
        ELSE LET metadata == (CHOOSE s \in found : TRUE).data
             IN  [filename |-> lora_file,
                  trigger_word |-> metadata.trigger_word.str,
                  lora_rank |-> metadata.lora_rank.str]

\* get_user_loras lines 172-213 (the order of the list is not followed)
get_user_loras ==
    /\ art_pc \in {"saved", "failed"}
    /\ art_listing' = {LoraInfo(f, art_sidecars) : f \in art_weights}
    /\ UNCHANGED <<art_in, art_pc, art_runs, art_cfg, art_weights, art_sidecars,
                   art_written>>
    /\ UNCHANGED notArt

ArtNext ==
    \/ \E in \in ArtInputs : start_training(in)
    \/ save_lora_artifacts
    \/ \E partial \in BOOLEAN : save_lora_artifacts_raise(partial)
    \/ get_user_loras

-----------------------------------------------------------------------------
(* The steps of the training loop: total_steps, global_step and the        *)
(* progress reports (training_loop.py lines 326-344, 366-396, 488-513).    *)

\* largest num_train_epochs (the repeat factor of the dataset) in the loop
MaxLoopEpochs == 4

LoaderLen_floor(n, batch_size) == n \div batch_size

\* len(train_dataloader) for DataLoader(train_dataset, batch_size=...) of
\* lines 338-344: drop_last is not set, so a last short batch counts
LoaderLen(n, batch_size) == (n + batch_size - 1) \div batch_size

\* lines 371-374
TotalSteps(loader_len, accum, max_train_steps) ==
    IF max_train_steps = Absent
    THEN loader_len \div accum
    ELSE max_train_steps[1]

\* len(train_dataloader) of the configuration (dataset length: DatasetLen)
LpLoaderLen == LoaderLen(DatasetLen(lp_cfg.k, lp_cfg.e), lp_cfg.batch_size)

\* the configurations explored
LpInit ==
    /\ lp_cfg \in [k : {1, 3}, e : 1..MaxLoopEpochs, batch_size : {1, 2},
                    accum : {1, 2, 4},
                    max_train_steps : {Absent, Some(0), Some(3), Some(10), Some(20)}]
    /\ lp_pc = "setup"
    /\ lp_total = 0
    /\ lp_step = 0
    /\ lp_global = 0
    /\ lp_updates = {}
    /\ lp_events = <<>>

\* no training loop
LpIdle ==
    /\ LpInit
    /\ lp_cfg = [k |-> 1, e |-> 1, batch_size |-> 1, accum |-> 4, max_train_steps |-> Absent]

\* lines 366-385: total_steps, the scheduler, global_step = 0
loop_setup ==
    /\ lp_pc = "setup"
    /\ lp_total' = TotalSteps(LpLoaderLen, lp_cfg.accum, lp_cfg.max_train_steps)
    /\ lp_pc' = "loop"
    /\ UNCHANGED <<lp_cfg, lp_step, lp_global, lp_updates, lp_events>>
    /\ UNCHANGED notLp

loop_batch_nobreak ==
    /\ lp_pc = "loop"
    /\ lp_step < LpLoaderLen
    /\ lp_step' = lp_step + 1
    /\ IF (lp_step + 1) % lp_cfg.accum = 0
       THEN /\ lp_global' = lp_global + 1
            /\ lp_updates' = lp_updates \cup {lp_step + 1}
            /\ lp_events' = IF (lp_global + 1) % 10 = 0 \/ lp_global + 1 = lp_total
                            THEN Append(lp_events, lp_global + 1)
                            ELSE lp_events
       ELSE UNCHANGED <<lp_global, lp_updates, lp_events>>
    /\ UNCHANGED <<lp_cfg, lp_pc, lp_total>>
    /\ UNCHANGED notLp

\* one iteration of lines 387-513 that does not break: forward and backward
\* pass of batch number step, and with (step + 1) % accum = 0 the global
\* step (clip, optimizer, scheduler, zero_grad) and perhaps a report
loop_batch ==
    /\ lp_pc = "loop"
    /\ lp_step < LpLoaderLen
    /\ lp_global < lp_total
    /\ lp_step' = lp_step + 1
    /\ IF (lp_step + 1) % lp_cfg.accum = 0
       THEN /\ lp_global' = lp_global + 1
            /\ lp_updates' = lp_updates \cup {lp_step + 1}
            /\ lp_events' = IF (lp_global + 1) % 10 = 0 \/ lp_global + 1 = lp_total
                            THEN Append(lp_events, lp_global + 1)
                            ELSE lp_events
       ELSE UNCHANGED <<lp_global, lp_updates, lp_events>>
    /\ UNCHANGED <<lp_cfg, lp_pc, lp_total>>
    /\ UNCHANGED notLp

\* the loop is left: the data loader is exhausted, or the break of lines
\* 388-389
loop_end ==
    /\ lp_pc = "loop"
    /\ lp_step = LpLoaderLen \/ lp_global >= lp_total
    /\ lp_pc' = "done"
    /\ UNCHANGED <<lp_cfg, lp_total, lp_step, lp_global, lp_updates, lp_events>>
    /\ UNCHANGED notLp

LpNext ==
    \/ loop_setup
    \/ loop_batch
    \/ loop_end

-----------------------------------------------------------------------------
(* The class-image directory of one user over several training runs        *)
(* (training_loop.py lines 191-262, training_config.py lines 49 and 79-80).*)

\* num_class_images in fast mode (25), scaled down
FastClassImages == 2

\* num_class_images by default (50): twice the fast count
FullClassImages == 2 * FastClassImages

\* training runs of one user that reach the class-image stage
MaxClassRuns == 3

RECURSIVE ZeroPad(_, _)
\* the digits s right-aligned in a field of width w and filled with "0",
\* as the format specification 0<w>d does; longer digit strings are kept
ZeroPad(s, w) == IF Len(s) >= w THEN s ELSE ZeroPad(<<"0">> \o s, w)

\* f"class_{n:04d}.png" (line 241)
ClassImageName(n) == <<"class_">> \o ZeroPad(IntStr(n), 4) \o <<".png">>

CiInit ==
    /\ ci_dir = {}
    /\ ci_pc = "idle"
    /\ ci_num = 0
    /\ ci_before = {}
    /\ ci_existing = 0
    /\ ci_i = 0
    /\ ci_pipeline = FALSE
    /\ ci_overwrote = FALSE
    /\ ci_runs = 0
    /\ ci_done_max = 0
    /\ ci_repeat = FALSE

\* lines 193-200: mkdir, the glob, the early return, num_to_generate
generate_class_images(num_images) ==
    /\ ci_pc \in {"idle", "returned", "raised"}
    /\ ci_runs < MaxClassRuns
    /\ ci_runs' = ci_runs + 1
    /\ ci_num' = num_images
    /\ ci_before' = ci_dir
    /\ ci_existing' = Cardinality(ci_dir)
    /\ ci_i' = 0
    /\ ci_pipeline' = FALSE
    /\ ci_repeat' = (num_images <= ci_done_max)
    /\ IF Cardinality(ci_dir) >= num_images
       THEN /\ ci_pc' = "returned"
            /\ ci_done_max' = IF num_images > ci_done_max THEN num_images ELSE ci_done_max
       ELSE /\ ci_pc' = "pipeline"
            /\ UNCHANGED ci_done_max
    /\ UNCHANGED <<ci_dir, ci_overwrote>>
    /\ UNCHANGED notCi

\* lines 213-217: the temporary pipeline
ci_create_pipeline ==
    /\ ci_pc = "pipeline"
    /\ ci_pipeline' = TRUE
    /\ ci_pc' = "generate"
    /\ UNCHANGED <<ci_dir, ci_num, ci_before, ci_existing, ci_i, ci_overwrote, ci_runs, ci_done_max, ci_repeat>>
    /\ UNCHANGED notCi

ci_save_image_from_zero ==
    /\ ci_pc = "generate"
    /\ ci_i < ci_num - ci_existing
    /\ ci_overwrote' = (ci_overwrote \/ ClassImageName(ci_i) \in ci_dir)
    /\ ci_dir' = ci_dir \cup {ClassImageName(ci_i)}
    /\ ci_i' = ci_i + 1
    /\ UNCHANGED <<ci_pc, ci_num, ci_before, ci_existing, ci_pipeline, ci_runs, ci_done_max, ci_repeat>>
    /\ UNCHANGED notCi

\* one iteration of lines 227-241: an image is generated and saved
ci_save_image ==
    /\ ci_pc = "generate"
    /\ ci_i < ci_num - ci_existing
    /\ ci_overwrote' = (ci_overwrote \/ ClassImageName(ci_existing + ci_i) \in ci_dir)
    /\ ci_dir' = ci_dir \cup {ClassImageName(ci_existing + ci_i)}
    /\ ci_i' = ci_i + 1
    /\ UNCHANGED <<ci_pc, ci_num, ci_before, ci_existing, ci_pipeline, ci_runs, ci_done_max, ci_repeat>>
    /\ UNCHANGED notCi

\* lines 243-262: the loop is over, the pipeline is freed, the call returns
ci_return ==
    /\ ci_pc = "generate"
    /\ ci_i = ci_num - ci_existing
    /\ ci_pc' = "returned"
    /\ ci_done_max' = IF ci_num > ci_done_max THEN ci_num ELSE ci_done_max
    /\ UNCHANGED <<ci_dir, ci_num, ci_before, ci_existing, ci_i, ci_pipeline, ci_overwrote, ci_runs, ci_repeat>>
    /\ UNCHANGED notCi

\* from_pretrained or a pipeline call raises (out of memory, for instance):
\* the run fails with the images saved so far left in the directory
ci_raise ==
    /\ ci_pc \in {"pipeline", "generate"}
    /\ ci_pc = "generate" => ci_i < ci_num - ci_existing
    /\ ci_pc' = "raised"
    /\ UNCHANGED <<ci_dir, ci_num, ci_before, ci_existing, ci_i, ci_pipeline, ci_overwrote, ci_runs, ci_done_max, ci_repeat>>
    /\ UNCHANGED notCi

CiNext ==
    \/ \E num_images \in {FastClassImages, FullClassImages} : generate_class_images(num_images)
    \/ ci_create_pipeline
    \/ ci_save_image
    \/ ci_return
    \/ ci_raise

-----------------------------------------------------------------------------
(* collate_fn and the examples __getitem__ builds                          *)
(* (dreambooth_dataset.py lines 111-155).                                  *)

\* largest number of examples in one batch (train_batch_size)
MaxBatchSize == 3

\* transformed images, told apart by a number
ImageTensors == {1, 2}

InstanceKeys == {"instance_images", "instance_prompt_ids_one", "instance_prompt_ids_two"}

ClassKeys == {"class_images", "class_prompt_ids_one", "class_prompt_ids_two"}

\* lines 113-123: the example of a dataset without class images
InstanceExample(image) ==
    [instance_images |-> image, instance_prompt |-> 0,
     instance_prompt_ids_one |-> 11, instance_prompt_ids_two |-> 12]

\* lines 125-133: the example of a dataset with class images
ClassExample(image, class_image) ==
    InstanceExample(image) @@
    [class_images |-> class_image, class_prompt |-> 0,
     class_prompt_ids_one |-> 21, class_prompt_ids_two |-> 22]

Examples ==
    {InstanceExample(i) : i \in ImageTensors} \cup
    {ClassExample(i, c) : i \in ImageTensors, c \in ImageTensors}

\* torch.stack([e[key] for e in examples])
Stack(examples, key) == [i \in 1..Len(examples) |-> examples[i][key]]

HasClass(e) == "class_images" \in DOMAIN e

collate_fn_any(examples) ==
    LET batch == [key \in InstanceKeys |-> Stack(examples, key)]
    IN  IF \E i \in 1..Len(examples) : HasClass(examples[i])
        THEN batch @@ [key \in ClassKeys |-> Stack(SelectSeq(examples, HasClass), key)]
        ELSE batch

\* lines 138-155
collate_fn(examples) ==
    LET batch == [key \in InstanceKeys |-> Stack(examples, key)]
    IN  IF \A i \in 1..Len(examples) : "class_images" \in DOMAIN examples[i]
        THEN batch @@ [key \in ClassKeys |-> Stack(examples, key)]
        ELSE batch

\* the batches a data loader may hand to collate_fn: one example or more,
\* with and without class data in any mixture
CoInit ==
    /\ co_examples \in UNION {[1..n -> Examples] : n \in 1..MaxBatchSize}
    /\ co_pc = "input"
    /\ co_batch = [key \in InstanceKeys |-> <<>>]

\* no batch is collated
CoIdle ==
    /\ CoInit
    /\ co_examples = <<InstanceExample(1)>>

\* the data loader calls collate_fn
collate ==
    /\ co_pc = "input"
    /\ co_batch' = collate_fn(co_examples)
    /\ co_pc' = "collated"
    /\ UNCHANGED co_examples
    /\ UNCHANGED notCo

CoNext == collate

-----------------------------------------------------------------------------
(* The uploaded temp images of /train-lora/stream and their reader         *)
(* (main.py lines 223-329, training_loop.py lines 312-336,                 *)
(* dreambooth_dataset.py lines 56-64, file_handler.py lines 50-68).        *)

\* str(e) of the FileNotFoundError that Image.open raises
NoSuchFile == "No such file or directory"

WiInit == wi_opened = "no"

\* DreamBoothDataset.__init__ opens the instance images (dreambooth_dataset.py
\* lines 58-62), after train has reported "Loading training models..."
\* (training_loop.py lines 318-336). With the temp directory removed
\* Image.open raises and run_training stores the error (main.py lines 263-266)
ts_worker_open_images ==
    /\ ts_thread = "running"
    /\ ts_emitted >= 1
    /\ wi_opened = "no"
    /\ IF ts_temp
       THEN /\ wi_opened' = "opened"
            /\ UNCHANGED <<ts_thread, ts_outcome, ts_result>>
       ELSE /\ wi_opened' = "missing"
            /\ ts_outcome' = "raised"
            /\ ts_result' = [ts_result EXCEPT !.error = NoSuchFile]
            /\ ts_thread' = "finally"
    /\ UNCHANGED <<ts_pc, ts_emitted, ts_queue, ts_temp, ts_sent>>
    /\ UNCHANGED <<mmVars, trVars, genVars, dlVars, cfgVars, setVars, rqVars, dsVars,
                   ppVars, accVars, artVars, lpVars, ciVars, coVars, paVars>>

-----------------------------------------------------------------------------
(* The paths of the artifacts of successive requests                       *)
(* (image_generator.py lines 137-143 and 207-213, lora_trainer.py lines    *)
(* 76-82, training_loop.py lines 557-558).                                 *)

\* clock readings told apart within one second
TicksPerSecond == 2

\* last clock reading explored
MaxTicks == 5

\* requests explored
MaxRequests == 3

UserIds == {"alice", "bob"}

LoraNames == {<<"c", "a", "t">>, <<"d", "o", "g">>}

\* datetime.now().strftime("%Y%m%d_%H%M%S") at clock reading now: the day,
\* hour and minute of the readings explored are the same
Strftime(now) ==
    <<"20261101_1200">> \o ZeroPad(IntStr((now \div TicksPerSecond) % 60), 2)

PaInit ==
    /\ pa_now = 0
    /\ pa_requests = <<>>

\* time passes
clock_tick ==
    /\ pa_now < MaxTicks
    /\ pa_now' = pa_now + 1
    /\ UNCHANGED pa_requests
    /\ UNCHANGED notPa

\* image_generator.py lines 137-143 (generate) and 207-213
\* (generate_with_progress): the output path of a generation request
generate_output_path(user_id) ==
    /\ Len(pa_requests) < MaxRequests
    /\ pa_requests' = Append(pa_requests,
           [kind |-> "generate", user_id |-> user_id, lora_name |-> <<>>,
            path |-> <<user_id, "generated_">> \o Strftime(pa_now) \o <<".png">>])
    /\ UNCHANGED pa_now
    /\ UNCHANGED notPa

\* lora_trainer.py lines 76-82 and training_loop.py lines 557-558: the
\* artifact path of a training request
train_output_file(user_id, lora_name) ==
    /\ Len(pa_requests) < MaxRequests
    /\ pa_requests' = Append(pa_requests,
           [kind |-> "train", user_id |-> user_id, lora_name |-> lora_name,
            path |-> <<user_id>> \o lora_name \o <<"_">> \o Strftime(pa_now)
                     \o <<".safetensors">>])
    /\ UNCHANGED pa_now
    /\ UNCHANGED notPa

PaNext ==
    \/ clock_tick
    \/ \E user_id \in UserIds : generate_output_path(user_id)
    \/ \E user_id \in UserIds, lora_name \in LoraNames : train_output_file(user_id, lora_name)

-----------------------------------------------------------------------------
(* Specifications                                                          *)

\* the components that are looked at in a specification of their own
\* the components after the settings that are idle unless a specification
\* is about them
RestIdle == PpIdle /\ AccInit /\ ArtInit /\ LpIdle /\ CiInit /\ CoIdle /\ WiInit /\ PaInit

ExtIdle == SetIdle /\ RqInit /\ DsIdle /\ RestIdle

\* no training request has been received
CfgIdle ==
    /\ CfgInit
    /\ cfg_in = [lora_name |-> <<>>, trigger_word |-> Absent,
                 timestamp |-> <<"2", "0", "_", "1", "0">>,
                 num_train_epochs |-> Absent, num_class_images |-> 50,
                 n_images |-> 1, fast_mode |-> FALSE]

\* the state after construction of the services
Init == MMInit /\ TrInit /\ GenInit /\ gen_mm_set = FALSE /\ DlInit /\ TsInit /\ CfgIdle /\ ExtIdle

SpecMM == Init /\ [][MMNext]_vars

SpecTrain == Init /\ [][TrNext]_vars

GpuNext == MMNext \/ TrNext

SpecGpu == Init /\ [][GpuNext]_vars

\* generation requests against a manager in any between-calls state
GenSpecInit == MMResident /\ TrInit /\ GenInit /\ DlInit /\ TsInit /\ CfgIdle /\ ExtIdle

SpecGen == GenSpecInit /\ [][GenNext]_vars

SpecDl == Init /\ [][DlNext]_vars

SpecTrainStream == Init /\ [][TsNext]_vars

\* configurations and trigger words for every explored request
ConfigInit == MMInit /\ TrInit /\ GenInit /\ gen_mm_set = FALSE /\ DlInit /\ TsInit /\ CfgInit /\ ExtIdle

SpecConfig == ConfigInit /\ [][CfgNext]_vars

\* the services as constructed, no request running
ServicesIdle == MMInit /\ TrInit /\ GenInit /\ gen_mm_set = FALSE /\ DlInit /\ TsInit /\ CfgIdle

\* the settings lookups for every explored request
SettingsInit == ServicesIdle /\ SetInit /\ RqInit /\ DsIdle /\ RestIdle

SpecSettings == SettingsInit /\ [][SetNext]_vars

\* the dataset of every explored image count and repeat factor
DatasetInit == ServicesIdle /\ SetIdle /\ RqInit /\ DsInit /\ RestIdle

SpecDataset == DatasetInit /\ [][DsNext]_vars

\* a training run with and without prior preservation
\* the components added after the prior-preservation run, idle
LaterIdle == LpIdle /\ CiInit /\ CoIdle /\ WiInit /\ PaInit

PriorInit == ServicesIdle /\ SetIdle /\ RqInit /\ DsIdle /\ PpInit /\ AccInit /\ ArtInit /\ LaterIdle

\* the training loop of every explored configuration
LoopInit == ServicesIdle /\ SetIdle /\ RqInit /\ DsIdle /\ PpIdle /\ AccInit /\ ArtInit /\ LpInit /\ CiInit /\ CoIdle /\ WiInit /\ PaInit

SpecLoop == LoopInit /\ [][LpNext]_vars

\* collate_fn on every batch of up to MaxBatchSize examples
CollateInit == ServicesIdle /\ SetIdle /\ RqInit /\ DsIdle /\ PpIdle /\ AccInit /\ ArtInit /\ LpIdle /\ CiInit /\ CoInit /\ WiInit /\ PaInit

SpecCollate == CollateInit /\ [][CoNext]_vars

\* requests of several users as time passes
SpecPaths == Init /\ [][PaNext]_vars

\* the class-image stage of successive training runs of one user
SpecClassImages == Init /\ [][CiNext]_vars

SpecPrior == PriorInit /\ [][PpNext]_vars

\* training runs of one user and listings of the user's adapters
SpecArtifacts == Init /\ [][ArtNext]_vars

\* the accessors called at any moment of the manager's life
AccessNext == MMNext \/ AccNext

SpecAccess == Init /\ [][AccessNext]_vars

\* training requests through /train-lora, /train-lora/stream and the trainer
TrainApiNext == RqNext \/ TsNext

SpecTrainApi == Init /\ [][TrainApiNext]_vars

\* generate_with_progress of requests without adapters
StreamNext ==
    \/ \E n \in 1..MaxSteps : generate_call("stream", <<>>, n)
    \/ prepare
    \/ worker_step
    \/ worker_return
    \/ worker_raise
    \/ loop_run_callback
    \/ poll_check
    \/ wait_event
    \/ wait_timeout
    \/ drain
    \/ \E unload_ok \in BOOLEAN : result_complete(unload_ok)
    \/ result_error

\* downloads of one registered and one unregistered id
DownloadNext ==
    \/ \E model_id \in {"sdxl-turbo", "unknown-id"} : download_model(model_id)
    \/ download_mkdir
    \/ download_mkdir_raise
    \/ \E marker \in BOOLEAN : download_fetch(marker)
    \/ \E marker \in BOOLEAN : download_fetch_raise(marker)
    \/ download_verify

ProgressNext == StreamNext \/ DownloadNext

\* the two operations that report a percentage, side by side, with sdxl-base
\* resident
ProgressInit == GenSpecInit /\ gen_mm_set /\ current_model_id = "sdxl-base"

SpecProgress == ProgressInit /\ [][ProgressNext]_vars

\* the two streaming responses side by side
WatchNext == TsNext \/ StreamNext

\* the event loop runs the generators and its callbacks, and the operating
\* system runs the worker thread through its finally block to its end
WatchFair ==
    /\ WF_vars(ts_start) /\ WF_vars(ts_get) /\ WF_vars(ts_get_empty)
    /\ WF_vars(ts_check_alive) /\ WF_vars(ts_final)
    /\ WF_vars(ts_worker_finally) /\ WF_vars(ts_worker_exit)
    /\ WF_vars(loop_run_callback) /\ WF_vars(poll_check)
    /\ WF_vars(wait_event \/ wait_timeout) /\ WF_vars(drain)
    /\ WF_vars(\E unload_ok \in BOOLEAN : result_complete(unload_ok))
    /\ WF_vars(result_error)

SpecWatch == ProgressInit /\ [][WatchNext]_vars /\ WatchFair

ts_disconnect_cancel ==
    /\ ts_pc = "poll"
    /\ ts_sent # <<>>
    /\ ts_pc' = "closed"
    /\ ts_temp' = FALSE
    /\ ts_thread' = "dead"
    /\ UNCHANGED <<ts_outcome, ts_emitted, ts_queue, ts_result, ts_sent>>
    /\ UNCHANGED notTs

\* the client of /train-lora/stream goes away while event_generator is
\* suspended at the yield of a progress event (main.py line 283): the
\* generator is closed, which runs its finally (lines 327-329); the
\* training thread of lines 270-272 is not touched
ts_disconnect ==
    /\ ts_pc = "poll"
    /\ ts_sent # <<>>
    /\ ts_pc' = "closed"
    /\ ts_temp' = FALSE
    /\ UNCHANGED <<ts_thread, ts_outcome, ts_emitted, ts_queue, ts_result, ts_sent>>
    /\ UNCHANGED notTs

\* the consumer of generate_with_progress goes away while the generator is
\* suspended at a yield of image_generator.py lines 247 or 256: leaving the
\* `with ThreadPoolExecutor()` block waits for the worker, it does not stop it
stream_disconnect ==
    /\ gen_variant = "stream"
    /\ gen_pc \in {"poll", "drain"}
    /\ gen_yielded # <<>>
    /\ gen_pc' = "closed"
    /\ UNCHANGED <<gen_mm_set, gen_mkdir, gen_variant, gen_loras, gen_outcomes,
                   gen_loaded_any, gen_saved, gen_error, pipe_loaded,
                   pipe_active, gen_N, w_pc, w_step, loop_ready, future_state,
                   gen_queue, gen_yielded>>
    /\ UNCHANGED notGen

\* the streaming responses with consumers that may go away
DisconnectNext == WatchNext \/ ts_disconnect \/ stream_disconnect

\* a worker thread that runs is scheduled until its function returns or raises
WorkerFair ==
    /\ WF_vars(ts_worker_return \/ \E msg \in ExcMessages : ts_worker_raise(msg))
    /\ WF_vars(worker_step \/ worker_return \/ worker_raise)

SpecDisconnect == ProgressInit /\ [][DisconnectNext]_vars /\ WorkerFair

\* one request of /train-lora/stream whose upload was saved (main.py line
\* 224) and whose response is about to be consumed
UploadSavedInit ==
    /\ MMInit /\ TrInit /\ GenInit /\ gen_mm_set = FALSE /\ DlInit /\ CfgIdle /\ ExtIdle
    /\ ts_pc = "start"
    /\ ts_thread = "not_started"
    /\ ts_outcome = "none"
    /\ ts_emitted = 0
    /\ ts_queue = <<>>
    /\ ts_result = [path |-> None, error |-> None]
    /\ ts_temp = TRUE
    /\ ts_sent = <<>>

UploadNext ==
    \/ ts_start
    \/ ts_worker_progress
    \/ ts_worker_open_images
    \/ ts_worker_return
    \/ \E msg \in ExcMessages : ts_worker_raise(msg)
    \/ ts_worker_finally
    \/ ts_worker_exit
    \/ ts_get
    \/ ts_get_empty
    \/ ts_check_alive
    \/ ts_final
    \/ ts_disconnect

\* the uploaded images of one streamed training, the client free to go away
SpecUpload == UploadSavedInit /\ [][UploadNext]_vars

-----------------------------------------------------------------------------
(* Claims about the ModelManager                                           *)

\* C1: the manager never keeps more than one pipeline alive; between calls the
\* live pipeline is the one current_model_id names; when load_model(Y) is
\* entered with a different model X resident, X is already released and
\* current_model_id cleared when Y's pipeline is about to be created, and
\* right after its creation Y is the only live pipeline.
C1_AtMostOneResident ==
    /\ Cardinality(ManagerResident) <= 1
    /\ (mm_pc = "idle" =>
            ManagerResident = IF current_model_id = None THEN {}
                              ELSE {<<"manager", current_model_id>>})
    /\ (mm_pc = "from_pretrained" /\ mm_pre.id # None /\ mm_pre.id # mm_arg =>
            /\ current_model_id = None
            /\ current_pipeline = None
            /\ ManagerResident = {})
    /\ (mm_pc = "assign" => ManagerResident = {<<"manager", mm_arg>>})

\* C1 witness: Y's pipeline has just been created during a switch away from X
C1_Witness ==
    /\ mm_pc = "assign"
    /\ mm_pre.id \in ModelIds
    /\ mm_pre.id # mm_arg
    /\ mm_pre.pipe # None

\* C4: a load_model call of a registered id in which the try block raised
\* returned False and left current_model_id = None, current_pipeline = None
\* and no pipeline alive, also when a model was resident at entry.
C4_FailedLoadResets ==
    (mm_pc = "idle" /\ mm_last.op = "load" /\ mm_last.exc) =>
        /\ mm_last.arg \in ModelIds
        /\ mm_last.ret = FALSE
        /\ current_model_id = None
        /\ current_pipeline = None
        /\ ManagerResident = {}

\* C4 witness: the load failed after the new pipeline had been stored, while
\* switching away from a resident model
C4_Witness ==
    /\ mm_pc = "idle"
    /\ mm_last.op = "load"
    /\ mm_last.exc
    /\ mm_loads = 1
    /\ mm_pre.pipe # None
    /\ mm_pre.id # mm_last.arg

\* C5: load_model(X) entered with X resident returns True at once: no
\* from_pretrained call, no release, residency state as at entry.
C5_ReloadIsNoOp ==
    (mm_arg # None /\ mm_pre.id = mm_arg /\ mm_pre.pipe # None) =>
        /\ mm_pc = "idle"
        /\ mm_last = [op |-> "load", arg |-> mm_arg, ret |-> TRUE, exc |-> FALSE]
        /\ mm_loads = 0
        /\ mm_evictions = 0
        /\ current_model_id = mm_pre.id
        /\ current_pipeline = mm_pre.pipe
        /\ ManagerResident = {<<"manager", mm_arg>>}

\* C5 witness: load_model(X) has returned after being entered with X resident
C5_Witness ==
    /\ mm_pc = "idle"
    /\ mm_last.op = "load"
    /\ mm_pre.id = mm_last.arg
    /\ mm_pre.pipe # None

\* C6: after unload_model nothing is resident (id and pipeline None, no
\* pipeline alive), and a call entered with nothing resident released nothing.
C6_UnloadIdempotent ==
    (mm_pc = "idle" /\ mm_last.op = "unload") =>
        /\ current_model_id = None
        /\ current_pipeline = None
        /\ ManagerResident = {}
        /\ (mm_pre.pipe = None => mm_evictions = 0 /\ mm_pre.id = current_model_id)
        /\ (mm_pre.pipe # None => mm_evictions = 1)

\* C6 witness: unload_model was called with nothing resident (a second unload)
C6_Witness ==
    /\ mm_pc = "idle"
    /\ mm_last.op = "unload"
    /\ mm_pre = [id |-> None, pipe |-> None]

\* C7: load_model of an id outside the registry returns False, calls no
\* loader, releases nothing and leaves the residency state as at entry.
C7_UnknownIdRejected ==
    (mm_pc = "idle" /\ mm_last.op = "load" /\ mm_last.arg \notin ModelIds) =>
        /\ mm_last.ret = FALSE
        /\ ~mm_last.exc
        /\ mm_loads = 0
        /\ mm_evictions = 0
        /\ current_model_id = mm_pre.id
        /\ current_pipeline = mm_pre.pipe
        /\ ManagerResident = IF mm_pre.pipe = None THEN {}
                             ELSE {<<"manager", mm_pre.pipe>>}

\* C7 witness: an unregistered id was rejected while a model was resident
C7_Witness ==
    /\ mm_pc = "idle"
    /\ mm_last.op = "load"
    /\ mm_last.arg \in UnregisteredIds
    /\ mm_pre.pipe \in ModelIds
    /\ current_pipeline = mm_pre.pipe

-----------------------------------------------------------------------------
(* Claims about LoraTrainingLoop.train                                     *)

\* C2: whenever control has left train (return or raise), _cleanup has run
\* and every model component of the loop object is None.
C2_CleanupAlwaysRuns ==
    tr_pc \in {"returned", "raised"} => tr_cleaned /\ tr_loaded = {}

\* stage names of tr_stages without a trailing "Failed"
EnteredStages ==
    IF tr_stages # <<>> /\ tr_stages[Len(tr_stages)] = "Failed"
    THEN SubSeq(tr_stages, 1, Len(tr_stages) - 1)
    ELSE tr_stages

\* C3: the stages a run enters are taken from the fixed order, strictly
\* increasing (none twice, none out of order, none skipped but the optional
\* first one); GeneratingClassImages is entered exactly with prior
\* preservation; Failed is only ever the last entry and is entered exactly
\* when train raised; Done is entered exactly when train returned; the
\* weights artifact and the sidecar exist only once Training was left for
\* SavingWeights, the sidecar only after the artifact.
C3_StageOrder ==
    LET es == EnteredStages IN
    /\ \A i \in 1..Len(es) : es[i] \in {StageOrder[j] : j \in 1..Len(StageOrder)}
    /\ \A i \in 1..(Len(es) - 1) : StageIndex(es[i + 1]) = StageIndex(es[i]) + 1
    /\ (es # <<>> => es[1] = IF tr_prior THEN "GeneratingClassImages" ELSE "LoadingModels")
    /\ (tr_pc = "raised" <=> (tr_stages # <<>> /\ tr_stages[Len(tr_stages)] = "Failed"))
    /\ (tr_pc = "returned" <=> (es # <<>> /\ es[Len(es)] = "Done"))
    /\ (tr_files # {} =>
            /\ \E i \in 1..Len(es) : es[i] = "Training"
            /\ \E i \in 1..Len(es) : es[i] = "SavingWeights"
            /\ tr_step >= tr_num_batches \/ tr_global_step >= tr_total_steps)
    /\ ("metadata" \in tr_files => "safetensors" \in tr_files)

\* C3 witness: a run with prior preservation went through all six stages and
\* wrote both files
C3_Witness ==
    /\ tr_pc = "returned"
    /\ tr_stages = StageOrder
    /\ tr_files = {"safetensors", "metadata"}
    /\ tr_global_step > 0

\* C8: every base model on the device is held by the ModelManager, and there
\* is at most one of them.
C8_SingleGpuOwner ==
    /\ Cardinality(gpu) <= 1
    /\ \A g \in gpu : g[1] = "manager"

-----------------------------------------------------------------------------
(* Claims about ImageGenerator                                             *)

StreamEnded == gen_variant = "stream" /\ gen_pc = "ended"

\* C9 as stated: a streamed run of N steps that has ended yielded exactly N
\* progress events with step 1..N in order, then exactly one terminal event.
C9_ExactlyNProgress ==
    StreamEnded =>
        /\ Len(gen_yielded) = gen_N + 1
        /\ \A i \in 1..gen_N : gen_yielded[i] = [event |-> "progress", step |-> i]
        /\ gen_yielded[gen_N + 1].event \in {"complete", "error"}

\* C9 amended: at every moment the yielded events are progress events with
\* step 1, 2, ... in order, followed by at most one terminal event that is
\* yielded last; when the stream has ended there is exactly one terminal
\* event, the progress events are exactly the k callbacks the sampling thread
\* made (none lost), k = N when sampling returned, and the terminal event is
\* complete exactly when sampling returned and the image was saved.
C9_ProgressThenTerminal ==
    LET n == Len(gen_yielded) IN
    /\ \A i \in 1..n :
          \/ gen_yielded[i] = [event |-> "progress", step |-> i]
          \/ /\ i = n
             /\ gen_pc = "ended"
             /\ gen_yielded[i].event \in {"complete", "error"}
    /\ StreamEnded =>
          /\ n = w_step + 1
          /\ gen_yielded[n].event \in {"complete", "error"}
          /\ gen_queue = <<>>
          /\ (w_pc = "returned" => w_step = gen_N)
          /\ (gen_yielded[n].event = "complete" <=> (w_pc = "returned" /\ gen_saved))
          /\ (gen_yielded[n].event = "complete" => gen_yielded[n].step = gen_N)

\* C9 witness: sampling raised after its first step of three; the stream
\* ended with that one progress event and an error event
C9_Witness ==
    /\ StreamEnded
    /\ gen_N = 3
    /\ w_pc = "raised"
    /\ w_step = 1
    /\ Len(gen_yielded) = 2
    /\ gen_yielded[2].event = "error"

\* adapters this call attached (load_lora_weights returned)
AttachedByCall ==
    {gen_loras[i] : i \in {j \in 1..Len(gen_outcomes) :
                              gen_outcomes[j] \in {"strength_failed", "attached"}}}

\* C10: when a call that attached at least one adapter has ended (returned,
\* raised, or its stream ended), the shared pipeline has no adapter attached.
C10_CleanPipelineAfterCall ==
    (gen_pc \in {"returned", "raised", "ended"} /\ AttachedByCall # {}) =>
        pipe_loaded = {}

\* a call that got past load_pipeline has left load_loras
PastLoadLoras ==
    /\ gen_mm_set
    /\ current_pipeline # None
    /\ gen_pc \notin {"idle", "load_loras"}

\* C11: an adapter whose file is missing or whose attach fails never aborts
\* the request: load_loras handles every adapter of the list (none stops the
\* loop), raises nothing, reports loaded_any exactly when some adapter
\* attached, the adapters that attached are on the pipeline while the image
\* is sampled, and the only exceptions leaving the call come from sampling
\* or saving the image.
C11_AdaptersNeverAbort ==
    /\ gen_error \in {None, "no_model", "sampling", "saving"}
    /\ (PastLoadLoras /\ SupportsLora(current_model_id)) =>
          /\ Len(gen_outcomes) = Len(gen_loras)
          /\ gen_loaded_any <=>
                \E i \in 1..Len(gen_outcomes) : gen_outcomes[i] = "attached"
    /\ (PastLoadLoras /\ gen_pc = "raised") => gen_error \in {"sampling", "saving"}
    /\ (PastLoadLoras /\ gen_pc \in {"prepare", "sample", "poll", "wait", "drain"}) =>
          \A i \in 1..Len(gen_outcomes) :
              gen_outcomes[i] = "attached" => gen_loras[i] \in pipe_loaded

\* C11 witness: sampling has returned an image for a request of two adapters,
\* the first one missing and the second one failing to attach
C11_Witness ==
    /\ gen_pc = "save"
    /\ gen_outcomes = <<"missing", "weights_failed">>
    /\ ~gen_loaded_any

\* the sampling call of the running request is in progress
Sampling ==
    \/ gen_variant = "generate" /\ gen_pc = "sample"
    \/ gen_variant = "stream" /\ w_pc = "running"

\* C12: when a request names several adapters, the resident model takes
\* adapters and every one of them attached without error, then during the
\* sampling call each of them is active on the pipeline at its requested
\* strength.
C12_AllAdaptersActive ==
    (/\ Sampling
     /\ Len(gen_loras) >= 2
     /\ Len(gen_outcomes) = Len(gen_loras)
     /\ \A i \in 1..Len(gen_outcomes) : gen_outcomes[i] = "attached") =>
        \A i \in 1..Len(gen_loras) :
            <<gen_loras[i], LoraStrength(gen_loras[i])>> \in pipe_active

\* C13: a generate or generate_with_progress call made while no model is
\* resident (or with no model manager set) has raised the no-model-loaded
\* error and done nothing else: no adapter handled or attached, no output
\* directory made, no file saved, no worker thread started, nothing
\* scheduled, queued or yielded, and the residency state as it was.
C13_NoModelFailsFirst ==
    (gen_pc # "idle" /\ (~gen_mm_set \/ current_pipeline = None)) =>
        /\ gen_pc = "raised"
        /\ gen_error = "no_model"
        /\ gen_outcomes = <<>>
        /\ ~gen_loaded_any
        /\ pipe_loaded = {}
        /\ pipe_active = {}
        /\ ~gen_mkdir
        /\ ~gen_saved
        /\ w_pc = "not_started"
        /\ w_step = 0
        /\ loop_ready = <<>>
        /\ gen_queue = <<>>
        /\ gen_yielded = <<>>
        /\ mm_pc = "idle"
        /\ mm_loads = 0
        /\ current_pipeline = current_model_id
        /\ gpu = ManagerResident

\* C13 witness: a streamed request with an adapter list failed while a
\* manager was set but held no model
C13_Witness ==
    /\ gen_pc = "raised"
    /\ gen_error = "no_model"
    /\ gen_variant = "stream"
    /\ gen_loras # <<>>
    /\ gen_mm_set
    /\ current_pipeline = None

-----------------------------------------------------------------------------
(* Claims about download_model                                             *)

\* the progress events of a download in their fixed order
DownloadSteps ==
    <<[event |-> "progress", percentage |-> 0],
      [event |-> "progress", percentage |-> 5],
      [event |-> "progress", percentage |-> 95]>>

\* C15: for a registered id the events yielded so far are an initial part of
\* progress 0%, 5%, 95% followed by at most one terminal event, which is the
\* last event and is there exactly when the generator is finished; every call
\* starts with the 0% event; the fetch starts only after the 5% event and
\* the 95% event follows only a fetch that returned; complete comes only
\* after all three progress events, a returned fetch and a passing marker
\* check; a failed fetch ends the sequence with the error right after 5%.
C15_DownloadOrder ==
    (dl_pc # "idle" /\ dl_id \in ModelIds) =>
        LET n == Len(dl_events) IN
        /\ n >= 1
        /\ dl_events[1] = DownloadSteps[1]
        /\ \A i \in 1..n :
              \/ i <= 3 /\ dl_events[i] = DownloadSteps[i]
              \/ i = n /\ i >= 2 /\ dl_events[i].event \in {"complete", "error"}
        /\ (dl_pc = "done" <=> dl_events[n].event \in {"complete", "error"})
        /\ (dl_fetch # "none" => n >= 3 /\ dl_events[2] = DownloadSteps[2])
        /\ (n >= 3 /\ dl_events[3] = DownloadSteps[3] => dl_fetch = "ok")
        /\ (dl_events[n].event = "complete" =>
                /\ n = 4
                /\ dl_fetch = "ok"
                /\ dl_id \in dl_dirs
                /\ dl_id \in dl_markers)
        /\ (dl_fetch = "raised" =>
                /\ n = 3
                /\ dl_events[3].event = "error")

\* C15 witness: a second download of a model whose first download left a
\* directory behind ran through 0%, 5%, 95% and complete
C15_Witness ==
    /\ dl_pc = "done"
    /\ dl_id \in dl_pre
    /\ Len(dl_events) = 4
    /\ dl_events[4].event = "complete"

\* C16: download_model of an unregistered id has yielded exactly one event,
\* an error event, and is finished; it made no directory, started no fetch
\* and left the residency state alone.
C16_UnknownDownload ==
    (dl_pc # "idle" /\ dl_id \notin ModelIds) =>
        /\ dl_pc = "done"
        /\ Len(dl_events) = 1
        /\ dl_events[1].event = "error"
        /\ dl_dirs = dl_pre
        /\ dl_fetch = "none"
        /\ current_model_id = None
        /\ current_pipeline = None
        /\ gpu = {}

\* C16 witness: an unregistered id was refused after an earlier download had
\* made a model directory
C16_Witness ==
    /\ dl_pc = "done"
    /\ dl_id \in UnregisteredIds
    /\ dl_pre # {}
    /\ dl_events = <<[event |-> "error", percentage |-> 0]>>

-----------------------------------------------------------------------------
(* Claims about the streamed endpoints                                     *)

\* positions of the terminal events among the events /train-lora/stream sent
TsTerminals == {i \in 1..Len(ts_sent) : ts_sent[i].event \in {"complete", "error"}}

\* C14: when the stream of /train-lora/stream has ended after the training
\* thread was started, it sent exactly one terminal event, as its last
\* event; if the training raised (whatever the message of the exception)
\* that event is an error event, and a complete event is sent only if the
\* training returned.
C14_WorkerErrorEndsInError ==
    (ts_pc = "done" /\ ts_outcome # "none") =>
        /\ TsTerminals = {Len(ts_sent)}
        /\ (ts_outcome = "raised" => ts_sent[Len(ts_sent)].event = "error")
        /\ (ts_sent[Len(ts_sent)].event = "complete" => ts_outcome = "returned")

\* percentages, in hundredths of a percent, of the events the running or
\* last generate_with_progress call has yielded
YieldedPercentages ==
    [i \in 1..Len(gen_yielded) |-> EventPercentage(gen_yielded[i], gen_N)]

\* C17 as stated: every event of a download_model or generate_with_progress
\* sequence, the terminal complete or error event included, carries a
\* percentage in 0..100, and the percentage never decreases from one event
\* to the next.
C17_PercentageNeverDecreases ==
    /\ \A i \in 1..Len(dl_events) : dl_events[i].percentage \in 0..100
    /\ \A i \in 1..(Len(dl_events) - 1) :
          dl_events[i].percentage <= dl_events[i + 1].percentage
    /\ \A i \in 1..Len(gen_yielded) : YieldedPercentages[i] \in 0..10000
    /\ \A i \in 1..(Len(gen_yielded) - 1) :
          YieldedPercentages[i] <= YieldedPercentages[i + 1]

\* C17 amended: every progress and complete event carries a percentage in
\* 0..100, and among the progress and complete events of one sequence the
\* percentage never decreases (complete carries 100); an error event carries
\* no progress value: the default 0 in download_model, none in
\* generate_with_progress.
C17_ProgressPercentageNeverDecreases ==
    /\ \A i \in 1..Len(dl_events) :
          IF dl_events[i].event = "error"
          THEN dl_events[i].percentage = 0
          ELSE /\ dl_events[i].percentage \in 0..100
               /\ \A j \in 1..(i - 1) :
                     dl_events[j].percentage <= dl_events[i].percentage
               /\ (dl_events[i].event = "complete" => dl_events[i].percentage = 100)
    /\ \A i \in 1..Len(gen_yielded) :
          IF gen_yielded[i].event = "error"
          THEN YieldedPercentages[i] = NoPercentage
          ELSE /\ YieldedPercentages[i] \in 1..10000
               /\ \A j \in 1..(i - 1) :
                     YieldedPercentages[j] <= YieldedPercentages[i]
               /\ (gen_yielded[i].event = "complete" => YieldedPercentages[i] = 10000)

\* C17 witness: a stream of three steps has ended with complete at 100 after
\* 33.33, 66.67 and 100, and a download has ended with its error event
\* after the 95% event
C17_Witness ==
    /\ gen_pc = "ended"
    /\ YieldedPercentages = <<3333, 6667, 10000, 10000>>
    /\ dl_pc = "done"
    /\ Len(dl_events) = 4
    /\ dl_events[3].percentage = 95
    /\ dl_events[4].event = "error"

-----------------------------------------------------------------------------
(* Claims about the training configuration                                 *)

\* a request has been trained: cfg is the config LoraTrainer.train built
Trained == cfg_pc \in {"train_lora", "train_lora_stream"}

\* C18: the trigger word of the config of a training run is the explicitly
\* supplied trigger word, unchanged, when one was supplied; otherwise it is
\* "sks_" followed by the alphanumeric characters of the original job name,
\* lower-cased. This holds for every original name, the empty one included,
\* so it never depends on the timestamp carried by lora_name.
C18_TriggerWordFromOriginalName ==
    Trained =>
        cfg.trigger_word = IF cfg_in.trigger_word # Absent
                           THEN cfg_in.trigger_word[1]
                           ELSE SksWord(cfg_in.lora_name)

\* C19: for every (loraName, triggerWord) input the trigger word of the
\* /train-lora response and the one of the /train-lora/stream complete
\* event are the same value, and it is config.trigger_word of the run.
C19_ReportedTriggerWordIsConfigs ==
    Trained =>
        /\ cfg_word = cfg.trigger_word
        /\ ResponseTriggerWord(cfg_in.lora_name, cfg_in.trigger_word)
              = StreamTriggerWord(cfg_in.lora_name, cfg_in.trigger_word)

\* the num_train_epochs the constructor was given (default 100)
ConfiguredEpochs ==
    IF cfg_in.num_train_epochs = Absent THEN 100 ELSE cfg_in.num_train_epochs[1]

\* C20: a config built with fast_mode has num_class_images 25, or the
\* configured count when that was already lower (never more than
\* configured), and num_train_epochs = max(50, floor(0.75 x configured)),
\* strictly less than configured; without fast_mode both are as configured.
C20_FastModeReduces ==
    cfg_pc = "config" =>
        IF cfg_in.fast_mode
        THEN /\ cfg.num_class_images =
                    IF cfg_in.num_class_images < 25 THEN cfg_in.num_class_images ELSE 25
             /\ cfg.num_class_images <= cfg_in.num_class_images
             /\ cfg.num_train_epochs = Max(50, (3 * ConfiguredEpochs) \div 4)
             /\ cfg.num_train_epochs < ConfiguredEpochs
        ELSE /\ cfg.num_class_images = cfg_in.num_class_images
             /\ cfg.num_train_epochs = ConfiguredEpochs

\* the value LoraTrainer.train must use for one parameter: the caller's when
\* supplied, the table's otherwise
SuppliedOr(argument, table_value) ==
    IF argument = Absent THEN table_value ELSE argument[1]

\* C21: LoraTrainer.train takes epochs, rank and learning rate from the
\* image-count table exactly for the parameters the caller did not supply and
\* keeps every supplied value (1 or 2 images, nothing supplied: 200 epochs,
\* rank 4, learning rate 5e-5; a supplied rank 8 is kept; a missing rank is
\* derived whether or not the epochs were supplied).
C21_SettingsFromTable ==
    "train" \in set_pc =>
        LET table == RecommendedSettings(set_in.n_images)
        IN  /\ set_train.num_train_epochs
                 = SuppliedOr(set_in.num_train_epochs, table.num_train_epochs)
            /\ set_train.lora_rank = SuppliedOr(set_in.lora_rank, table.lora_rank)
            /\ set_train.learning_rate
                 = SuppliedOr(set_in.learning_rate, table.learning_rate)

\* the three entries of the lookup tables
TableEntries ==
    {[num_train_epochs |-> 200, learning_rate |-> 50, lora_rank |-> 4],
     [num_train_epochs |-> 150, learning_rate |-> 100, lora_rank |-> 8],
     [num_train_epochs |-> 100, learning_rate |-> 100, lora_rank |-> 8]}

\* C22: for image counts 1..5 get_recommended_settings and for_image_count
\* are monotone (epochs never increase, rank and learning rate never decrease
\* as the count grows), the buckets 1-2, 3-4 and 5 give 200, 150 and 100
\* epochs, both lookups return the same epochs, rank and learning rate for
\* every count, and both return an entry for any integer.
C22_LookupsMonotoneAndEqual ==
    ({"recommended", "for_image_count"} \subseteq set_pc) =>
        /\ set_rec = set_fic
        /\ set_rec[1] \in TableEntries /\ set_rec[2] \in TableEntries
        /\ set_rec[1].num_train_epochs
             = (IF set_in.n_images \in {1, 2} THEN 200
                ELSE IF set_in.n_images \in {3, 4} THEN 150 ELSE 100)
        /\ (set_in.other_images \in 1..5 /\ set_in.n_images <= set_in.other_images) =>
                /\ set_rec[1].num_train_epochs >= set_rec[2].num_train_epochs
                /\ set_rec[1].lora_rank <= set_rec[2].lora_rank
                /\ set_rec[1].learning_rate <= set_rec[2].learning_rate

\* both lookups have answered for 2 and for 3 images, the edge of a bucket
C22_Witness ==
    /\ {"recommended", "for_image_count"} \subseteq set_pc
    /\ set_in.n_images = 2 /\ set_in.other_images = 3
    /\ set_rec[1].num_train_epochs > set_rec[2].num_train_epochs

\* C23: a training request with 0 or more than 5 images is rejected at once
\* and without side effects through /train-lora, /train-lora/stream and
\* LoraTrainer.train: no image is written to the temp area, no per-user
\* directory is made, no worker is started, and the streaming response is a
\* single error event.
C23_RejectedWithoutSideEffects ==
    /\ [](rq_entry # "none" /\ (rq_n = 0 \/ rq_n > 5) =>
            /\ rq_pc = "done" /\ rq_response \in {"500", "ValueError"}
            /\ ~rq_temp /\ ~rq_user_dir /\ ~rq_worker)
    /\ [][\A n \in ImageCounts : (n = 0 \/ n > 5) /\ train_lora_stream(n) =>
            /\ ts_pc' = "done" /\ ts_thread' = "not_started" /\ ~ts_temp'
            /\ Len(ts_sent') = 1 /\ ts_sent'[1].event = "error"]_vars

\* the plain endpoint or the trainer, and the streaming endpoint, have each
\* turned down a request with no image or six images
C23_Witness ==
    /\ rq_entry \in {"endpoint", "direct"} /\ rq_n \in {0, 6} /\ rq_pc = "done"
    /\ ts_pc = "done" /\ Len(ts_sent) = 1 /\ ts_thread = "not_started"

\* C24: the temp directory of a request's uploaded images is deleted before
\* the request returns, for /train-lora and /train-lora/stream and for every
\* outcome of the training: once the response or stream has ended no temp
\* directory of the request exists.
C24_TempDirectoryRemoved ==
    /\ (rq_entry = "endpoint" /\ rq_pc = "done") => ~rq_temp
    /\ ts_pc = "done" => ~ts_temp

\* C25: a DreamBoothDataset of k instance images (1 <= k <= 5) and repeat
\* factor e has length k x e, a multiple of k, and for every index i with
\* 0 <= i < k x e item i uses instance image i mod k; the same index always
\* gives the same instance image.
C25_DatasetCyclesThroughImages ==
    /\ ds_len # -1 =>
            /\ ds_len = ds_k * ds_e
            /\ \E q \in 0..MaxRepeats : ds_len = q * ds_k
    /\ ds_last # NoItem =>
            /\ ds_last.instance_idx \in 0..(ds_k - 1)
            /\ \E q \in 0..(ds_e - 1) : ds_last.index = q * ds_k + ds_last.instance_idx
    /\ (ds_prev # NoItem /\ ds_prev.index = ds_last.index) =>
            ds_prev.instance_idx = ds_last.instance_idx

\* the same index past the first round of several images was asked for twice
C25_Witness ==
    /\ ds_k >= 2 /\ ds_len = ds_k * ds_e
    /\ ds_last.index >= ds_k /\ ds_last.instance_idx = 1
    /\ ds_prev.index = ds_last.index

\* C26: a run with with_prior_preservation = false never touches the
\* class-image directory (not created, listed, read or written, even when it
\* exists with images of an earlier run), no batch carries class data and no
\* prior loss is added; with prior preservation on, the prior term
\* prior_loss_weight x class loss is added exactly for the batches that
\* carry class data.
C26_PriorPreservationOnlyWhenOn ==
    /\ ~pp_prior =>
            /\ pp_touched = {}
            /\ ~pp_batch.class_data
            /\ pp_batch.loss = pp_batch.instance_loss
    /\ (pp_prior /\ pp_batch # NoBatch) =>
            pp_batch.loss = pp_batch.instance_loss
                + (IF pp_batch.class_data THEN PriorLossWeight * pp_batch.class_loss ELSE 0)

\* a run without prior preservation next to a directory with class images
\* has trained a batch
C26_Witness ==
    /\ ~pp_prior /\ pp_dir.exists /\ pp_dir.pngs > 0 /\ pp_class_prompt # ""
    /\ pp_pc = "done" /\ pp_batch # NoBatch

\* C27: both streaming watchers terminate: in /train-lora/stream and in
\* generate_with_progress, once the background worker has finished (normally
\* or by exception) the consumer eventually stops polling, emits its terminal
\* event and ends the stream, whether or not a final event or sentinel was
\* enqueued.
C27_WatchersTerminate ==
    /\ (ts_outcome \in {"returned", "raised"}) ~>
            (ts_pc = "done" /\ ts_sent # <<>>
                /\ ts_sent[Len(ts_sent)].event \in {"complete", "error"})
    /\ (w_pc \in {"returned", "raised"}) ~>
            (gen_pc = "ended" /\ gen_yielded # <<>>
                /\ gen_yielded[Len(gen_yielded)].event \in {"complete", "error"})

\* both workers failed and both streams have ended
C27_Witness ==
    /\ ts_outcome = "raised" /\ ts_pc = "done"
    /\ w_pc = "raised" /\ gen_pc = "ended"

\* C28: when the consumer of a streaming training or generation response
\* disconnects before the terminal event, the background worker is not
\* cancelled or interrupted: it keeps running and eventually completes or
\* fails on its own.
C28_WorkerOutlivesConsumer ==
    /\ (ts_pc = "closed") ~> (ts_outcome \in {"returned", "raised"})
    /\ (gen_pc = "closed") ~> (w_pc \in {"returned", "raised"})

\* both consumers went away while their workers ran, and both workers have
\* returned since
C28_Witness ==
    /\ ts_pc = "closed" /\ ts_outcome = "returned" /\ ts_emitted = MaxTrainEvents
    /\ gen_pc = "closed" /\ w_pc = "returned" /\ Len(gen_yielded) < gen_N

\* the id the claim resolves a call to
C29_Resolved(call) ==
    IF call.model_id # None THEN call.model_id ELSE call.current

\* C29: get_inference_steps(id?) and supports_lora(id?) resolve the id to
\* the given id, else to the resident model's id, and return that model's
\* configured value; when no registered id is resolvable (none given and
\* nothing resident, or an unregistered id) they return 30 steps and true;
\* neither accessor changes any state.
C29_AccessorsResolveAndFallBack ==
    /\ [](acc_steps.called =>
            acc_steps.value =
                (CASE C29_Resolved(acc_steps) = "sdxl-base" -> 30
                   [] C29_Resolved(acc_steps) = "sdxl-turbo" -> 4
                   [] C29_Resolved(acc_steps) = "z-image-turbo" -> 8
                   [] OTHER -> 30))
    /\ [](acc_lora.called =>
            (acc_lora.value <=> C29_Resolved(acc_lora) # "z-image-turbo"))
    /\ [][(acc_steps' # acc_steps \/ acc_lora' # acc_lora) => UNCHANGED notAcc]_vars

\* a call naming a registered id while another model is resident, and a call
\* without an id while nothing is resident
C29_Witness ==
    /\ acc_steps.called /\ acc_steps.model_id = "sdxl-turbo"
    /\ acc_steps.current = "z-image-turbo" /\ acc_steps.value = 4
    /\ acc_lora.called /\ acc_lora.model_id = None /\ acc_lora.current = None

\* N_<timestamp> of the last run
C30_FullName == art_in.lora_name \o <<"_">> \o art_in.timestamp

\* the sidecars next to the artifact of the last run
C30_Sidecars == {s \in art_sidecars : s.name = Append(C30_FullName, "_metadata.json")}

\* the sidecars, readable or not, next to a listed file
C30_SidecarsOf(filename) ==
    {s \in art_sidecars :
        s.name = Append(SubSeq(filename, 1, Len(filename) - 1), "_metadata.json")}

\* what a successful run leaves, but for the form of lora_rank and lora_alpha
C30_SavedRun(rank, alpha) ==
    /\ art_written = {Append(C30_FullName, ".safetensors")}
    /\ Cardinality(C30_Sidecars) = 1
    /\ \A s \in C30_Sidecars :
            /\ s.readable
            /\ s.data.trigger_word = [str |-> art_cfg.trigger_word]
            /\ s.data.lora_rank = rank
            /\ s.data.lora_alpha = alpha
            /\ s.data.base_model = [str |-> art_cfg.base_model]
            /\ s.data.learning_rate = [float |-> art_cfg.learning_rate]
            /\ s.data.num_train_epochs = [int |-> art_cfg.num_train_epochs]
            /\ s.data.resolution = [int |-> art_cfg.resolution]
            /\ s.data.with_prior_preservation = [bool |-> art_cfg.with_prior_preservation]
            /\ (art_in.lora_name = <<"c", "a", "t">> /\ art_in.trigger_word = Absent) =>
                    s.data.trigger_word.str = <<"s", "k", "s", "_", "c", "a", "t">>
            /\ \A e \in art_listing : e.filename \in art_written =>
                    /\ e.trigger_word = s.data.trigger_word.str
                    /\ e.lora_rank = s.data.lora_rank.str

Min(a, b) == IF a < b THEN a ELSE b

\* C31 as stated: without a step cap the total step count is
\* floor(datasetLength / gradientAccumulationSteps) for every batch size,
\* with a cap it is max_train_steps
C31_TotalIgnoresBatchSize ==
    lp_pc # "setup" =>
        lp_total = IF lp_cfg.max_train_steps = Absent
                   THEN DatasetLen(lp_cfg.k, lp_cfg.e) \div lp_cfg.accum
                   ELSE lp_cfg.max_train_steps[1]

\* C31 amended: without a step cap the total step count is the number of
\* batches, ceil(datasetLength / batchSize), divided by the accumulation
\* factor and rounded down; with a cap it is max_train_steps
C31_TotalFromBatches ==
    lp_pc # "setup" =>
        lp_total = IF lp_cfg.max_train_steps = Absent
                   THEN ((DatasetLen(lp_cfg.k, lp_cfg.e) + lp_cfg.batch_size - 1)
                            \div lp_cfg.batch_size) \div lp_cfg.accum
                   ELSE lp_cfg.max_train_steps[1]

\* total_steps was computed without a cap for batches of two out of an odd
\* number of dataset entries
C31_Witness ==
    /\ lp_pc # "setup"
    /\ lp_cfg.max_train_steps = Absent
    /\ lp_cfg.batch_size = 2
    /\ DatasetLen(lp_cfg.k, lp_cfg.e) = 9
    /\ lp_total = 5

\* C32: global_step is floor(batches processed / accumulation factor) and
\* never exceeds total_steps; a global step is performed after each full
\* block of batches and at no other time; the loop ends only with
\* global_step at total_steps or with the loader exhausted, no batch is
\* processed once total_steps is reached, and the final global_step is
\* min(total_steps, floor(number of batches / accumulation factor))
C32_GlobalStepCounts ==
    lp_pc # "setup" =>
        /\ lp_global = lp_step \div lp_cfg.accum
        /\ lp_global <= lp_total
        /\ lp_updates = {lp_cfg.accum * j : j \in 1..lp_global}
        /\ lp_step <= lp_total * lp_cfg.accum
        /\ lp_pc = "done" =>
               /\ lp_global = lp_total \/ lp_step = LpLoaderLen
               /\ lp_global = Min(lp_total, LpLoaderLen \div lp_cfg.accum)

\* a capped loop stopped with batches left, and another ran out of batches
\* before its cap
C32_Witness ==
    /\ lp_pc = "done"
    /\ lp_cfg.max_train_steps = Some(3)
    /\ lp_global = 3
    /\ lp_step = 6
    /\ LpLoaderLen = 12

\* C33 as stated: every global step that is a multiple of 10 and the last
\* global step the loop performs are reported
C33_LastStepReported ==
    lp_pc = "done" =>
        \A g \in 1..lp_global :
            (g % 10 = 0 \/ g = lp_global) =>
                \E i \in 1..Len(lp_events) : lp_events[i] = g

\* C34: a call of the class-image stage that finds at least the required
\* count of images generates nothing and creates no pipeline; otherwise it
\* saves exactly (required - existing) images under the zero-padded names
\* numbered from the existing count, none of which replaces a file; after
\* the stage the directory holds at least the required count, and a call
\* that asks for no more than a returned call did generates nothing
C34_ClassImagesIdempotent ==
    /\ ~ci_overwrote
    /\ ci_repeat => (ci_i = 0 /\ ~ci_pipeline /\ ci_pc = "returned")
    /\ ci_pc = "returned" =>
           /\ Cardinality(ci_dir) >= ci_num
           /\ IF ci_existing >= ci_num
              THEN ci_i = 0 /\ ~ci_pipeline /\ ci_dir = ci_before
              ELSE /\ ci_i = ci_num - ci_existing
                   /\ ci_before \subseteq ci_dir
                   /\ Cardinality(ci_dir) = Cardinality(ci_before) + (ci_num - ci_existing)
                   /\ ci_dir \ ci_before =
                          {<<"class_", "0", "0", "0", DigitChars[j + 1], ".png">> :
                               j \in ci_existing..(ci_num - 1)}

\* a full run completed after a run that failed part-way had left one image
C34_Witness ==
    /\ ci_pc = "returned"
    /\ ci_existing = 1
    /\ ci_num = FullClassImages
    /\ ci_i = FullClassImages - 1
    /\ ci_runs = 2

\* C35: the batch collate_fn returns has the three class fields if and
\* only if every example carries class data, and no class field otherwise;
\* the three instance fields are always there and hold the values of all
\* examples in their order
C35_ClassFieldsIffAll ==
    co_pc = "collated" =>
        LET all_class == \A i \in 1..Len(co_examples) :
                             "class_images" \in DOMAIN co_examples[i]
        IN  /\ DOMAIN co_batch =
                   IF all_class THEN InstanceKeys \cup ClassKeys ELSE InstanceKeys
            /\ \A key \in DOMAIN co_batch :
                   /\ Len(co_batch[key]) = Len(co_examples)
                   /\ \A i \in 1..Len(co_examples) :
                          co_batch[key][i] = co_examples[i][key]

\* a batch of two examples, only the second with class data, was collated
C35_Witness ==
    /\ co_pc = "collated"
    /\ Len(co_examples) = 2
    /\ "class_images" \notin DOMAIN co_examples[1]
    /\ "class_images" \in DOMAIN co_examples[2]
    /\ co_batch.instance_images = <<co_examples[1].instance_images, co_examples[2].instance_images>>

\* the progress events among the events sent to the client
SentProgress == SelectSeq(ts_sent, LAMBDA ev : ev.event = "progress")

\* C36 as stated: when the response of /train-lora/stream is complete, the
\* progress events sent before the terminal event are all the events the
\* worker enqueued, in enqueue order
C36_AllProgressRelayed ==
    (ts_pc = "done" /\ ts_thread # "not_started") =>
        /\ SentProgress = [i \in 1..ts_emitted |-> [event |-> "progress", n |-> i]]
        /\ ts_sent[Len(ts_sent)].event \in {"complete", "error"}
        /\ \A i \in 1..(Len(ts_sent) - 1) : ts_sent[i].event = "progress"

\* C37 as stated: once the temp images of a streamed training are removed,
\* its worker has finished or has already opened them, and the worker never
\* finds them missing
C37_ImagesOutliveReader ==
    /\ ~ts_temp => (ts_thread \in {"finally", "exiting", "dead"} \/ wi_opened = "opened")
    /\ wi_opened # "missing"

\* C38: between two operations of the manager current_model_id is None
\* exactly when current_pipeline is None, a current_model_id that is set is
\* a key of the registry, and the pipeline kept is the one of that model
C38_IdAndPipelineAgree ==
    mm_pc = "idle" =>
        /\ (current_model_id = None) <=> (current_pipeline = None)
        /\ current_model_id # None => current_model_id \in ModelIds
        /\ current_pipeline # None => current_pipeline = current_model_id

\* a load that raised while another model had been resident left the
\* manager empty, and a load that succeeded left it holding its model
C38_Witness ==
    /\ mm_pc = "idle"
    /\ mm_last.op = "load"
    /\ \/ mm_last.exc /\ mm_pre.id # None /\ current_model_id = None
       \/ mm_last.ret = TRUE /\ mm_pre.id # None /\ current_model_id = mm_last.arg
                              /\ current_model_id # mm_pre.id

\* C39 as stated: two generation requests of the same user never get the
\* same output path, and two training requests of the same user with the
\* same LoRA name never get the same artifact path
C39_PathsUnique ==
    \A i, j \in 1..Len(pa_requests) :
        (/\ i < j
         /\ pa_requests[i].kind = pa_requests[j].kind
         /\ pa_requests[i].user_id = pa_requests[j].user_id
         /\ pa_requests[i].lora_name = pa_requests[j].lora_name)
        => pa_requests[i].path # pa_requests[j].path
====
